---- MODULE Spec2Model ----
(***************************************************************************)
(* Model of src/llvm_backend_proc.cpp: the procedure builder               *)
(* (lb_create_procedure), the body entry sequencer                         *)
(* (lb_begin_procedure_body), the call emitter (lb_emit_call,              *)
(* lb_emit_call_internal) and the call-expression lowering with its        *)
(* variadic buffer reuse (lb_build_call_expr_internal).                    *)
(*                                                                         *)
(* Each part of the file is a specification of its own over its own        *)
(* variables; the variables of the other parts stay at their idle value.   *)
(*   SpecProc      lb_create_procedure on one module, one or two threads   *)
(*   SpecBody      lb_begin_procedure_body on one procedure                *)
(*   SpecCall      lb_emit_call at one call site                           *)
(*   SpecVari      the call expressions of one procedure, in order         *)
(*   SpecDefer     the deferred procedures of one procedure's calls        *)
(*   SpecSimd      one call of a SIMD builtin (lb_build_builtin_simd_proc)  *)
(*   SpecBuiltin   the dispatch of one builtin call (lb_build_builtin_proc) *)
(*   SpecNested    the nested procedures of one parent (lb_build_nested_proc) *)
(*   SpecInternal  one call of lb_emit_call_internal                        *)
(*   SpecFix       the tuple-fix map of one procedure over its calls        *)
(*   SpecReduce    one call of a SIMD reduction builtin                     *)
(*   SpecRotate    the lane rotations of one vector                         *)
(*   SpecBuf       the variadic buffer across nested variadic calls         *)
(*   SpecEnd       lb_end_procedure_body on the blocks of one function      *)
(*   SpecSys       the syscall and syscall_bsd builtins                     *)
(*   SpecUtf       the constant_utf16_cstring builtin                       *)
(***************************************************************************)
EXTENDS Integers, Sequences, FiniteSets, Bags, TLC

VARIABLES
    \* ---- lbModule and the threads running lb_create_procedure ----
    ent,            \* Entity -> [link_name, kind]: what the checker hands over
    concurrent,     \* TRUE: the two threads may interleave inside a call
    members,        \* m->members: link name -> function value
    procedures,     \* m->procedures: link name -> lbProcedure
    entity_values,  \* lb_add_entity: entity -> function value
    functions,      \* LLVM module: the function added by each LLVMAddFunction
    procs,          \* the lbProcedure objects allocated, in allocation order
    pc,             \* thread -> position inside lb_create_procedure
    cur,            \* thread -> locals of the running call
    ret,            \* thread -> what its last call returned
    calls,          \* number of calls started
    fatal,          \* GB_PANIC / GB_ASSERT hit: code generation is aborted
    \* ---- one lbProcedure whose body is entered (lb_begin_procedure_body) ----
    body_pt,        \* p->type, p->abi_function_type and the DeclInfo flags read
    body_pc,        \* "entry", "body" (after lb_begin_procedure_body), "called"
    param_bind,     \* per parameter: what lb_add_entity bound the entity to
    result_bind,    \* per named result: what the entity was bound to
    body_locals,    \* number of locals (allocas) the procedure has so far
    self_call,      \* native argument list of a call of the procedure to itself
    \* ---- one call site lowered by lb_emit_call ----
    call_pt,        \* the callee's procedure type and lbFunctionType
    call_args,      \* Array<lbValue> args handed to lb_emit_call
    call_pc,        \* "ready", "emitted", "fatal" (an assertion failed)
    processed_args, \* processed_args as handed to lb_emit_call_internal
    native_call,    \* the arguments of the LLVMBuildCall2 emitted, if any
    call_result,    \* the result of the call before the tuple fix
    tuple_fix,      \* tuple_fix_values recorded for the call (split returns)
    call_block,     \* the allocations, the call and the loads, in emission order
    \* ---- one procedure lowering call expressions (lb_build_call_expr_internal) ----
    var_decl,       \* DeclInfo *d of p->entity, as the checker computed it
    var_proc,       \* p->variadic_reuses, p->variadic_reuse_base_array_ptr, locals
    var_site,       \* the call expression lowered last and what was emitted for it
    \* ---- one procedure whose calls attach deferred procedures ----
    defer_proc,     \* the procedure generated: its result_count, the callee it calls
    defer_stmts,    \* p->defer_stmts: the deferred entries pending
    scope_index,    \* p->scope_index
    block,          \* the instructions of p->curr_block, in order
    defer_pc,       \* "body", "returned", "ended", "ended_after_return"
    defer_count,    \* [registered, locals]: entries registered, locals added
    defer_site,     \* the lb_emit_call done last and what it registered
    \* ---- one call of a SIMD builtin (lb_build_builtin_simd_proc) ----
    simd_call,      \* the builtin, the target and the argument vectors
    simd_res,       \* res.value: the lanes of the result, <<>> before the call
    simd_emitted,   \* the intrinsic called, "emulation", "inline", or "none" before
    \* ---- one call of a builtin procedure (lb_build_builtin_proc) ----
    builtin_call,   \* the builtin id, the target and the operand's element type
    builtin_res,    \* how the call ended and what it returned
    \* ---- one parent procedure building nested procedures (lb_build_nested_proc) ----
    nest_ent,       \* the nested procedure entities, as the checker left them
    nest_mod,       \* the lbModule: its tables, functions and generation queue
    nest_parent,    \* the parent lbProcedure: its name and children
    nest_site,      \* the call made last, the state before it, what it returned
    \* ---- one call of lb_emit_call_internal ----
    internal_call,  \* the callee's native signature and the arguments handed over
    internal_res,   \* how the call ended and how many arguments were emitted
    \* ---- one procedure emitting calls, with its tuple-fix map (lb_emit_call) ----
    tuple_fix_map,  \* p->tuple_fix_map: LLVM value -> tuple_fix_values
    fix_count,      \* [locals, calls]: locals added and calls emitted so far
    fix_site,       \* the call emitted last: its keys and component count
    \* ---- one call of a SIMD reduction builtin ----
    reduce_call,    \* the builtin id, is_float and the lane count of arg0
    reduce_loop,    \* remaining, num_remaining and the shuffle masks used last
    reduce_res,     \* how the call ended and the value extracted
    \* ---- one vector rotated by simd_lanes_rotate_left / _right ----
    rotate_call,    \* the lane count, the constant k and the BigInt convention
    rotate_vec,     \* the lanes of the vector after the rotations done
    rotate_done,    \* the rotation builtins applied so far, in order
    \* ---- one procedure lowering variadic calls nested in named arguments ----
    buf_decl,       \* DeclInfo *d of p->entity, as the checker computed it
    buf_proc,       \* p->variadic_reuses, the base array pointer, the locals
    buf_mem,        \* the elements stored in each base array, by address
    buf_issued,     \* the native calls issued for the expression lowered last
    \* ---- the basic blocks of one function at lb_end_procedure_body ----
    end_blocks,     \* the blocks of p->value in order, each its instructions
    end_proc,       \* p->curr_block, result_count and the pending deferred entries
    end_pc,         \* "body", "ended" (after lb_end_procedure_body)
    \* ---- one call of the syscall or syscall_bsd builtin ----
    sys_call,       \* the builtin, build_context.metrics.arch and .os, ce->args.count
    sys_asm,        \* the constraint items and the number of arguments of the call built
    sys_pc,         \* "start", "built", "fatal"
    \* ---- one call of constant_utf16_cstring ----
    utf_value,      \* the string constant, as the runes gb_utf8_decode yields
    utf_array,      \* the u16 units of the array constant
    utf_max_len,    \* the length of the temporary buffer
    utf_pc          \* "start", "built"

procVars == <<ent, concurrent, members, procedures, entity_values, functions,
              procs, pc, cur, ret, calls, fatal>>

bodyVars == <<body_pt, body_pc, param_bind, result_bind, body_locals, self_call>>

callVars == <<call_pt, call_args, call_pc, processed_args, native_call,
              call_result, tuple_fix, call_block>>

variVars == <<var_decl, var_proc, var_site>>

deferVars == <<defer_proc, defer_stmts, scope_index, block, defer_pc,
               defer_count, defer_site>>

simdVars == <<simd_call, simd_res, simd_emitted>>

builtinVars == <<builtin_call, builtin_res>>

nestedVars == <<nest_ent, nest_mod, nest_parent, nest_site>>

internalVars == <<internal_call, internal_res>>

fixVars == <<tuple_fix_map, fix_count, fix_site>>

reduceVars == <<reduce_call, reduce_loop, reduce_res>>

rotateVars == <<rotate_call, rotate_vec, rotate_done>>

bufVars == <<buf_decl, buf_proc, buf_mem, buf_issued>>

endVars == <<end_blocks, end_proc, end_pc>>

sysVars == <<sys_call, sys_asm, sys_pc>>

utfVars == <<utf_value, utf_array, utf_max_len, utf_pc>>

notProcVars == <<bodyVars, callVars, variVars, deferVars, simdVars, builtinVars, nestedVars, internalVars, fixVars, reduceVars, rotateVars, bufVars, endVars, sysVars, utfVars>>
notBodyVars == <<procVars, callVars, variVars, deferVars, simdVars, builtinVars, nestedVars, internalVars, fixVars, reduceVars, rotateVars, bufVars, endVars, sysVars, utfVars>>
notCallVars == <<procVars, bodyVars, variVars, deferVars, simdVars, builtinVars, nestedVars, internalVars, fixVars, reduceVars, rotateVars, bufVars, endVars, sysVars, utfVars>>
notVariVars == <<procVars, bodyVars, callVars, deferVars, simdVars, builtinVars, nestedVars, internalVars, fixVars, reduceVars, rotateVars, bufVars, endVars, sysVars, utfVars>>
notDeferVars == <<procVars, bodyVars, callVars, variVars, simdVars, builtinVars, nestedVars, internalVars, fixVars, reduceVars, rotateVars, bufVars, endVars, sysVars, utfVars>>

notSimdVars == <<procVars, bodyVars, callVars, variVars, deferVars, builtinVars, nestedVars, internalVars, fixVars, reduceVars, rotateVars, bufVars, endVars, sysVars, utfVars>>

notBuiltinVars == <<procVars, bodyVars, callVars, variVars, deferVars, simdVars, nestedVars, internalVars, fixVars, reduceVars, rotateVars, bufVars, endVars, sysVars, utfVars>>

notNestedVars == <<procVars, bodyVars, callVars, variVars, deferVars, simdVars, builtinVars, internalVars, fixVars, reduceVars, rotateVars, bufVars, endVars, sysVars, utfVars>>

notInternalVars == <<procVars, bodyVars, callVars, variVars, deferVars, simdVars, builtinVars, nestedVars, fixVars, reduceVars, rotateVars, bufVars, endVars, sysVars, utfVars>>

notFixVars == <<procVars, bodyVars, callVars, variVars, deferVars, simdVars, builtinVars, nestedVars, internalVars, reduceVars, rotateVars, bufVars, endVars, sysVars, utfVars>>

notReduceVars == <<procVars, bodyVars, callVars, variVars, deferVars, simdVars, builtinVars, nestedVars, internalVars, fixVars, rotateVars, bufVars, endVars, sysVars, utfVars>>

notRotateVars == <<procVars, bodyVars, callVars, variVars, deferVars, simdVars, builtinVars, nestedVars, internalVars, fixVars, reduceVars, bufVars, endVars, sysVars, utfVars>>

notBufVars == <<procVars, bodyVars, callVars, variVars, deferVars, simdVars, builtinVars, nestedVars, internalVars, fixVars, reduceVars, rotateVars, endVars, sysVars, utfVars>>

notEndVars == <<procVars, bodyVars, callVars, variVars, deferVars, simdVars, builtinVars, nestedVars, internalVars, fixVars, reduceVars, rotateVars, bufVars, sysVars, utfVars>>

notSysVars == <<procVars, bodyVars, callVars, variVars, deferVars, simdVars, builtinVars, nestedVars, internalVars, fixVars, reduceVars, rotateVars, bufVars, endVars, utfVars>>

notUtfVars == <<procVars, bodyVars, callVars, variVars, deferVars, simdVars, builtinVars, nestedVars, internalVars, fixVars, reduceVars, rotateVars, bufVars, endVars, sysVars>>

vars == <<procVars, bodyVars, callVars, variVars, deferVars, simdVars, builtinVars, nestedVars, internalVars, fixVars, reduceVars, rotateVars, bufVars, endVars, sysVars, utfVars>>

(***************************************************************************)
(* Bounds of the model                                                     *)
(***************************************************************************)
MaxCalls == 3
MaxBodyParams == 2
MaxResults == 2
MaxCallParams == 3
MaxCallResults == 3
MaxExtraArgs == 2
MaxSites == 2
MaxVariadicArgs == 2
MaxDeferCalls == 2
MaxDeferArgs == 2
MaxScope == 1
MaxLanes == 2
MaxNestedCalls == 3
MaxFixCalls == 3
MaxLog2Lanes == 3
MaxRotations == 2
MaxBufExprs == 2
MaxBodyBlocks == 2
MaxSyscallArgs == 8
MaxRunes == 2
SyscallArgLimit == 7

(***************************************************************************)
(* lb_create_procedure                                                     *)
(***************************************************************************)
Threads == {"t1", "t2"}
Entities == {"e1", "e2"}
LinkNames == {"a", "b"}
\* normal:    non-foreign, body checked
\* foreign:   is_foreign
\* poly:      polymorphic, not foreign, not poly-specialized
\* unchecked: non-foreign, EntityFlag_ProcBodyChecked not set
EntityKinds == {"normal", "foreign", "poly", "unchecked"}

NullProc == 0    \* nullptr: also what a thread holds before its first call

IdleLocals == [entity |-> "e1", ignore_body |-> FALSE, link_name |-> "a", p |-> 0]

\* The value of each part's variables while another part is being run
IdleProc ==
    /\ ent = [e \in Entities |-> [link_name |-> "a", kind |-> "normal"]]
    /\ concurrent = FALSE
    /\ members = <<>>
    /\ procedures = <<>>
    /\ entity_values = <<>>
    /\ functions = <<>>
    /\ procs = <<>>
    /\ pc = [t \in Threads |-> "idle"]
    /\ cur = [t \in Threads |-> IdleLocals]
    /\ ret = [t \in Threads |-> NullProc]
    /\ calls = 0
    /\ fatal = FALSE

IdleBody ==
    /\ body_pt = [params |-> <<>>, cc |-> "c", c_vararg |-> FALSE,
                  result_count |-> 0, ret_kind |-> "none", split |-> FALSE,
                  has_named_results |-> FALSE, defer |-> "none",
                  internal_by_value |-> FALSE]
    /\ body_pc = "idle"
    /\ param_bind = <<>>
    /\ result_bind = <<>>
    /\ body_locals = 0
    /\ self_call = <<>>

IdleCall ==
    /\ call_pt = [params |-> <<>>, cc |-> "c", c_vararg |-> FALSE,
                  result_count |-> 0, ret_kind |-> "none", split |-> FALSE]
    /\ call_args = <<>>
    /\ call_pc = "idle"
    /\ processed_args = <<>>
    /\ native_call = <<>>
    /\ call_result = [k |-> "null", n |-> 0]
    /\ tuple_fix = <<>>
    /\ call_block = <<>>

NoSite == [done |-> FALSE]

IdleVari ==
    /\ var_decl = [has_decl |-> FALSE, types |-> {}, llvm13 |-> TRUE]
    /\ var_proc = [reuses |-> <<>>, base |-> [k |-> "null", n |-> 0], locals |-> 0,
                   base_allocs |-> <<>>, site_log |-> {}, nsites |-> 0, npacked |-> 0]
    /\ var_site = NoSite

IdleDefer ==
    /\ defer_proc = [result_count |-> 0]
    /\ defer_stmts = <<>>
    /\ scope_index = 0
    /\ block = <<>>
    /\ defer_pc = "idle"
    /\ defer_count = [locals |-> 0, registered |-> 0]
    /\ defer_site = NoSite

NoSimdCall == [id |-> "none"]

IdleSimd ==
    /\ simd_call = NoSimdCall
    /\ simd_res = <<>>
    /\ simd_emitted = "none"

NoBuiltinRes == [pc |-> "ready"]

IdleBuiltin ==
    /\ builtin_call = [id |-> "none"]
    /\ builtin_res = [pc |-> "idle"]

EmptyModule ==
    [members |-> <<>>, procedures |-> <<>>, entity_values |-> <<>>,
     functions |-> <<>>, procs |-> <<>>, procedures_to_generate |-> <<>>,
     fatal |-> FALSE]

IdleNested ==
    /\ nest_ent = <<>>
    /\ nest_mod = EmptyModule
    /\ nest_parent = [name |-> <<"idle">>, children |-> <<>>]
    /\ nest_site = [calls |-> 0, op |-> "none"]

IdleInternal ==
    /\ internal_call = [param_count |-> 0]
    /\ internal_res = [pc |-> "idle"]

IdleFix ==
    /\ tuple_fix_map = <<>>
    /\ fix_count = [locals |-> 0, calls |-> 0]
    /\ fix_site = [op |-> "idle"]

IdleReduce ==
    /\ reduce_call = [id |-> "none"]
    /\ reduce_loop = [num_remaining |-> 0]
    /\ reduce_res = [pc |-> "idle"]

IdleRotate ==
    /\ rotate_call = [count |-> 0]
    /\ rotate_vec = <<>>
    /\ rotate_done = <<"idle">>

IdleBuf ==
    /\ buf_decl = [has_decl |-> FALSE]
    /\ buf_proc = [nexprs |-> 0]
    /\ buf_mem = <<>>
    /\ buf_issued = <<"idle">>

IdleEnd ==
    /\ end_blocks = <<>>
    /\ end_proc = [curr_block |-> 0]
    /\ end_pc = "idle"

IdleSys ==
    /\ sys_call = [arg_count |-> 0]
    /\ sys_asm = [args |-> 0]
    /\ sys_pc = "idle"

IdleUtf ==
    /\ utf_value = <<>>
    /\ utf_array = <<>>
    /\ utf_max_len = 0
    /\ utf_pc = "idle"

\* is_type_polymorphic(entity->type) && !is_foreign && bt->Proc.is_polymorphic
\* && !bt->Proc.is_poly_specialized
IsUnspecializedPolymorphic(e) == ent[e].kind = "poly"

\* !is_foreign && (flags & EntityFlag_ProcBodyChecked) == 0
IsBodyUnchecked(e) == ent[e].kind = "unchecked"

\* lb_get_entity_name(m or other_module, entity)
LinkNameOf(e, ignore_body) == ent[e].link_name

MemberFound_AlwaysMiss(mem, name) == FALSE

\* string_map_get(&m->members, key) != nullptr
MemberFound(mem, name) == name \in DOMAIN mem

\* string_map_set / map_set
MapSet(map, key, value) ==
    [k \in DOMAIN map \cup {key} |-> IF k = key THEN value ELSE map[k]]

InitProc ==
    /\ ent \in [Entities -> [link_name : LinkNames, kind : EntityKinds]]
    /\ concurrent \in BOOLEAN
    /\ members = <<>>
    /\ procedures = <<>>
    /\ entity_values = <<>>
    /\ functions = <<>>
    /\ procs = <<>>
    /\ pc = [t \in Threads |-> "idle"]
    /\ cur = [t \in Threads |-> IdleLocals]
    /\ ret = [t \in Threads |-> NullProc]
    /\ calls = 0
    /\ fatal = FALSE
    /\ IdleBody
    /\ IdleCall
    /\ IdleVari
    /\ IdleDefer
    /\ IdleSimd
    /\ IdleBuiltin
    /\ IdleNested
    /\ IdleInternal
    /\ IdleFix
    /\ IdleReduce
    /\ IdleRotate
    /\ IdleBuf
    /\ IdleEnd
    /\ IdleSys
    /\ IdleUtf

\* Entry of lb_create_procedure up to the computation of link_name.
\* A caller that serialises its calls (concurrent = FALSE) starts one only
\* when no other call is running.
CreateEnter(t, e, ignore_body) ==
    /\ ~fatal
    /\ pc[t] = "idle"
    /\ calls < MaxCalls
    /\ concurrent \/ \A u \in Threads : pc[u] = "idle"
    /\ calls' = calls + 1
    /\ IF IsUnspecializedPolymorphic(e)
       THEN /\ ret' = [ret EXCEPT ![t] = NullProc]
            /\ UNCHANGED <<pc, cur, fatal>>
       ELSE IF IsBodyUnchecked(e)
       THEN /\ fatal' = TRUE
            /\ UNCHANGED <<pc, cur, ret>>
       ELSE /\ pc' = [pc EXCEPT ![t] = "lookup"]
            /\ cur' = [cur EXCEPT ![t] =
                          [entity |-> e, ignore_body |-> ignore_body,
                           link_name |-> LinkNameOf(e, ignore_body), p |-> 0]]
            /\ UNCHANGED <<ret, fatal>>
    /\ UNCHANGED <<ent, concurrent, members, procedures, entity_values,
                   functions, procs>>
    /\ UNCHANGED notProcVars

\* The lookup block: string_map_get on m->members, and on a hit
\* lb_add_entity and the return of string_map_must_get(&m->procedures, key).
CreateLookup(t) ==
    /\ ~fatal
    /\ pc[t] = "lookup"
    /\ LET name == cur[t].link_name IN
       IF MemberFound(members, name)
       THEN /\ entity_values' = MapSet(entity_values, cur[t].entity, members[name])
            /\ IF name \in DOMAIN procedures
               THEN /\ ret' = [ret EXCEPT ![t] = procedures[name]]
                    /\ UNCHANGED fatal
               ELSE /\ fatal' = TRUE
                    /\ UNCHANGED ret
            /\ pc' = [pc EXCEPT ![t] = "idle"]
            /\ cur' = [cur EXCEPT ![t] = IdleLocals]
       ELSE /\ pc' = [pc EXCEPT ![t] = "alloc"]
            /\ UNCHANGED <<entity_values, ret, fatal, cur>>
    /\ UNCHANGED <<ent, concurrent, members, procedures, functions, procs, calls>>
    /\ UNCHANGED notProcVars

\* gb_alloc_item of the lbProcedure, its fields, and LLVMAddFunction: LLVM
\* adds a function also when the name is taken (it renames the new one).
CreateAddFunction(t) ==
    /\ ~fatal
    /\ pc[t] = "alloc"
    /\ functions' = Append(functions, cur[t].link_name)
    /\ procs' = Append(procs, [name |-> cur[t].link_name,
                               entity |-> cur[t].entity,
                               value |-> Len(functions) + 1,
                               has_body |-> ~cur[t].ignore_body])
    /\ cur' = [cur EXCEPT ![t].p = Len(procs) + 1]
    /\ pc' = [pc EXCEPT ![t] = "register"]
    /\ UNCHANGED <<ent, concurrent, members, procedures, entity_values, ret,
                   calls, fatal>>
    /\ UNCHANGED notProcVars

\* lb_add_entity, lb_add_member, lb_add_procedure_value, return p.
CreateRegister(t) ==
    /\ ~fatal
    /\ pc[t] = "register"
    /\ LET p == cur[t].p IN
       /\ entity_values' = MapSet(entity_values, cur[t].entity, procs[p].value)
       /\ members' = MapSet(members, procs[p].name, procs[p].value)
       /\ procedures' = MapSet(procedures, procs[p].name, p)
       /\ ret' = [ret EXCEPT ![t] = p]
    /\ pc' = [pc EXCEPT ![t] = "idle"]
    /\ cur' = [cur EXCEPT ![t] = IdleLocals]
    /\ UNCHANGED <<ent, concurrent, functions, procs, calls, fatal>>
    /\ UNCHANGED notProcVars

NextProc ==
    \/ \E t \in Threads, e \in Entities, ignore_body \in BOOLEAN :
          CreateEnter(t, e, ignore_body)
    \/ \E t \in Threads : CreateLookup(t)
    \/ \E t \in Threads : CreateAddFunction(t)
    \/ \E t \in Threads : CreateRegister(t)

(***************************************************************************)
(* Values, procedure types and their ABI classification                    *)
(*                                                                         *)
(* A value is [k, n]: k says what it is, n which one.                      *)
(*   param n        LLVMGetParam(p->value, n)                              *)
(*   local n        the address of the n-th local of the procedure         *)
(*   arg n          the n-th argument handed to lb_emit_call (1-based)     *)
(*   direct n       argument n converted and transmuted to its ABI type    *)
(*   ptr n          the address of storage holding argument n              *)
(*   partial_ret j  the address of the local for tuple member j (0-based)  *)
(*   return_ptr     the address of the local the callee returns into       *)
(*   context        the context pointer                                    *)
(*   call           the value of the call instruction                      *)
(*   load_X n       the value loaded from the address X n                  *)
(***************************************************************************)
Val(k, n) == [k |-> k, n |-> n]
Null == Val("null", 0)

\* lb_emit_load of an address
Load(v) ==
    CASE v.k = "partial_ret" -> Val("load_partial_ret", v.n)
      [] v.k = "return_ptr"  -> Val("load_return_ptr", v.n)
      [] v.k = "local"       -> Val("load_local", v.n)
      [] v.k = "ptr"         -> Val("load_ptr", v.n)
      [] OTHER               -> Val("load_invalid", v.n)

\* A parameter entity with the lbArgType the classifier gave it.
\*   kind  "nonvar": e->kind != Entity_Variable (no lbArgType of its own),
\*         "ignore", "direct", "indirect": lbArg_Ignore/Direct/Indirect
\*   named e->token.string is neither empty nor blank
\*   sz    type_size_of(e->type)
Param(kind, named, sz) == [kind |-> kind, named |-> named, sz |-> sz]

CallingConventions == {"odin", "contextless", "c"}

\* is_calling_convention_odin
IsOdinCC(cc) == cc \in {"odin", "contextless"}

\* pt->Proc.calling_convention == ProcCC_Odin: the context pointer is passed
HasContext(cc) == cc = "odin"

\* Return shapes: result_count values, ft->ret.kind ("none" when there is no
\* result), and split = (ft->multiple_return_original_type != nullptr): all
\* but the last tuple member are returned through hidden trailing pointers.
\* The classifier splits only Odin-style conventions and only tuples.
RetShapes(cc, maxResults) ==
    {[result_count |-> 0, ret_kind |-> "none", split |-> FALSE]}
    \cup {[result_count |-> n, ret_kind |-> k, split |-> FALSE] :
             n \in 1..maxResults, k \in {"direct", "indirect"}}
    \cup {[result_count |-> n, ret_kind |-> k, split |-> TRUE] :
             n \in (IF IsOdinCC(cc) THEN 2..maxResults ELSE {}),
             k \in {"direct", "indirect"}}

SeqsUpTo(S, n) == UNION {[1..m -> S] : m \in 0..n}

\* ft->args: one lbArgType per Entity_Variable parameter, in order
FtArgs(params) == SelectSeq(params, LAMBDA e : e.kind # "nonvar")

\* ft->original_arg_count: ft->args.count before the split-return pointers
OriginalArgCount(pt) == Len(FtArgs(pt.params))

\* Number of hidden trailing pointers of a split return
SplitPtrCount(pt) == IF pt.split THEN pt.result_count - 1 ELSE 0

(***************************************************************************)
(* lb_emit_call and lb_emit_call_internal                                  *)
(***************************************************************************)
\* pt->Proc.param_count: the C-variadic parameter is the last one and is not
\* in pt.params, which holds the fixed parameters.
ParamCount(pt) == Len(pt.params) + (IF pt.c_vararg THEN 1 ELSE 0)

ArityOk_VarargExact(pt, nargs) ==
    ParamCount(pt) - (IF pt.c_vararg THEN 1 ELSE 0) = nargs

\* The two arity assertions at the head of lb_emit_call
ArityOk(pt, nargs) ==
    IF pt.c_vararg
    THEN ParamCount(pt) - 1 <= nargs
    ELSE ParamCount(pt) = nargs

\* The marshalling loop over the fixed parameters: processed_args and
\* ignored_args after it.  args is the argument list handed to lb_emit_call.
MarshalFixed(pt, args) ==
    LET n == IF pt.c_vararg THEN ParamCount(pt) - 1 ELSE ParamCount(pt)
        loop[i \in 0..n] ==
            IF i = 0 THEN [processed |-> <<>>, ignored |-> 0]
            ELSE LET prev == loop[i - 1]
                     e == pt.params[i]
                 IN  CASE e.kind = "nonvar" -> prev
                       [] e.kind = "ignore" ->
                            [prev EXCEPT !.ignored = @ + 1]
                       [] e.kind = "direct" ->
                            [prev EXCEPT !.processed = Append(@, Val("direct", args[i].n))]
                       [] e.kind = "indirect" ->
                            [prev EXCEPT !.processed = Append(@, Val("ptr", args[i].n))]
    IN  loop[n]

\* if (is_c_vararg) for (i = processed_args.count; i < args.count; i++)
\*     array_add(&processed_args, args[i]);
CVarargTail(pt, args, processed) ==
    IF pt.c_vararg /\ Len(processed) < Len(args)
    THEN [i \in 1..(Len(args) - Len(processed)) |-> args[Len(processed) + i]]
    ELSE <<>>

\* The locals for the first result_count-1 tuple members of a split return
PartialReturnPtrs(pt) == [j \in 1..SplitPtrCount(pt) |-> Val("partial_ret", j - 1)]

\* processed_args as handed to lb_emit_call_internal
ProcessedArgs(pt, args) ==
    LET fixed == MarshalFixed(pt, args).processed
    IN  fixed \o CVarargTail(pt, args, fixed) \o PartialReturnPtrs(pt)

NativeArgs_ContextFirst(pt, processed) ==
    (IF HasContext(pt.cc) THEN <<Val("context", 0)>> ELSE <<>>)
    \o (IF pt.ret_kind = "indirect" THEN <<Val("return_ptr", 0)>> ELSE <<>>)
    \o processed

\* lb_emit_call_internal: return pointer first, processed arguments, context
\* pointer last.
NativeArgs(pt, processed) ==
    (IF pt.ret_kind = "indirect" THEN <<Val("return_ptr", 0)>> ELSE <<>>)
    \o processed
    \o (IF HasContext(pt.cc) THEN <<Val("context", 0)>> ELSE <<>>)

\* LLVMCountParamTypes(fnp): the parameters of the classified native
\* signature: return pointer, one per Direct or Indirect parameter, the
\* split-return pointers, the context pointer.
NativeParamCount(pt) ==
    (IF pt.ret_kind = "indirect" THEN 1 ELSE 0)
    + Len(SelectSeq(pt.params, LAMBDA e : e.kind \in {"direct", "indirect"}))
    + SplitPtrCount(pt)
    + (IF HasContext(pt.cc) THEN 1 ELSE 0)

\* The logical result before the tuple fix: a load of the return slot, the
\* value of the call, or nothing.
CallResult(pt) ==
    IF pt.ret_kind = "indirect" THEN Load(Val("return_ptr", 0))
    ELSE IF pt.result_count > 0 THEN Val("call", 0)
    ELSE Null

TupleFixOffset_IgnoringIgnored(pt, ignored) == OriginalArgCount(pt)

\* isize offset = ft->original_arg_count - ignored_args;
TupleFixOffset(pt, ignored) == OriginalArgCount(pt) - ignored

\* One instruction or allocation of the call sequence: op is "alloca",
\* "call" or "load", v the address allocated or loaded from (the value of
\* the call for "call"), args the native arguments of a call.
CallInstr(op, v, args) == [op |-> op, v |-> v, args |-> args]

\* What lb_emit_call emits from the split-return pointers on, in order: the
\* locals of the hidden pointers, the return slot, the native call, the load
\* of the return slot, then the tuple fix with its dummy local and loads.
CallBlock(pt, native) ==
    [j \in 1..SplitPtrCount(pt) |-> CallInstr("alloca", Val("partial_ret", j - 1), <<>>)]
    \o (IF pt.ret_kind = "indirect"
        THEN <<CallInstr("alloca", Val("return_ptr", 0), <<>>)>> ELSE <<>>)
    \o <<CallInstr("call", Val("call", 0), native)>>
    \o (IF pt.ret_kind = "indirect"
        THEN <<CallInstr("load", Val("return_ptr", 0), <<>>)>> ELSE <<>>)
    \o (IF pt.split
        THEN <<CallInstr("alloca", Val("result_ptr", 0), <<>>)>>
             \o [j \in 1..SplitPtrCount(pt) |->
                    CallInstr("load", Val("partial_ret", j - 1), <<>>)]
             \o <<CallInstr("load", Val("result_ptr", 0), <<>>)>>
        ELSE <<>>)

\* tuple_fix_values of a split-return call
TupleFixValues(pt, args) ==
    LET processed == ProcessedArgs(pt, args)
        offset == TupleFixOffset(pt, MarshalFixed(pt, args).ignored)
        ret_count == pt.result_count
    IN  [j \in 1..ret_count |->
            IF j < ret_count
            THEN IF offset + j \in 1..Len(processed)
                 THEN Load(processed[offset + j])
                 ELSE Val("out_of_bounds", offset + j - 1)
            ELSE CallResult(pt)]

(***************************************************************************)
(* lb_begin_procedure_body                                                 *)
(***************************************************************************)
BodyParamShapes ==
    {Param("nonvar", TRUE, 0), Param("ignore", TRUE, 0),
     Param("direct", TRUE, 8), Param("direct", FALSE, 8),
     Param("indirect", TRUE, 16), Param("indirect", TRUE, 17),
     Param("indirect", FALSE, 24)}

\* p->entity->decl_info as the fast path for named results reads it:
\*   "none"       p->entity or its decl_info is null
\*   "unchecked"  defer_use_checked is false
\*   "unused"     defer_use_checked && defer_used == 0
\*   "used"       defer_use_checked && defer_used != 0
DeferInfos == {"none", "unchecked", "unused", "used"}

BodyProcTypes(maxParams, maxResults) ==
    {[params |-> ps, cc |-> cc, c_vararg |-> FALSE,
      result_count |-> r.result_count, ret_kind |-> r.ret_kind, split |-> r.split,
      has_named_results |-> nr, defer |-> d, internal_by_value |-> bv] :
        ps \in SeqsUpTo(BodyParamShapes, maxParams),
        cc \in CallingConventions,
        r \in UNION {RetShapes(c, maxResults) : c \in CallingConventions},
        nr \in BOOLEAN, d \in DeferInfos, bv \in BOOLEAN}

WellFormedBodyType(t) ==
    /\ t.split => IsOdinCC(t.cc)
    /\ t.has_named_results => t.result_count > 0

DoCalleeCopy_StrictlyLess(t, sz) ==
    IsOdinCC(t.cc) /\ (sz < 16 \/ t.internal_by_value)

\* do_callee_copy for an Indirect parameter of size sz
DoCalleeCopy(t, sz) ==
    IF IsOdinCC(t.cc)
    THEN IF t.internal_by_value THEN TRUE ELSE sz <= 16
    ELSE FALSE

\* unsigned param_offset: 1 when the return is Indirect (parameter 0 is the
\* return pointer)
ParamOffset(t) == IF t.ret_kind = "indirect" THEN 1 ELSE 0

\* LLVMGetParam(p->value, param_offset+param_index)
ParamReadIndex(t, param_index, ignored_before) == ParamOffset(t) + param_index

\* A binding of one parameter entity:
\*   bound    lb_add_entity was called for it
\*   ptr      the address the entity is bound to
\*   reads    a native parameter was read for it, namely number native
\*   copied   the pointee was copied into a fresh local
Unbound == [bound |-> FALSE, ptr |-> Null, reads |-> FALSE, native |-> 0,
            copied |-> FALSE]

\* The loop over params->variables: bindings, param_index and the number of
\* locals after parameter i.
BindParams(t, locals0) ==
    LET n == Len(t.params)
        loop[i \in 0..n] ==
            IF i = 0
            THEN [bind |-> <<>>, param_index |-> 0, ignored |-> 0, locals |-> locals0]
            ELSE LET prev == loop[i - 1]
                     e == t.params[i]
                     idx == ParamReadIndex(t, prev.param_index, prev.ignored)
                     fresh == Val("local", prev.locals + 1)
                 IN  CASE e.kind = "nonvar" ->
                            [prev EXCEPT !.bind = Append(@, Unbound)]
                       [] e.kind = "ignore" ->
                            [bind |-> Append(prev.bind,
                                  [Unbound EXCEPT !.bound = TRUE, !.ptr = fresh]),
                             param_index |-> prev.param_index + 1,
                             ignored |-> prev.ignored + 1,
                             locals |-> prev.locals + 1]
                       [] e.kind = "direct" /\ e.named ->
                            [bind |-> Append(prev.bind,
                                  [bound |-> TRUE, ptr |-> fresh, reads |-> TRUE,
                                   native |-> idx, copied |-> FALSE]),
                             param_index |-> prev.param_index + 1,
                             ignored |-> prev.ignored,
                             locals |-> prev.locals + 1]
                       [] e.kind = "indirect" /\ e.named ->
                            IF DoCalleeCopy(t, e.sz)
                            THEN [bind |-> Append(prev.bind,
                                      [bound |-> TRUE, ptr |-> fresh, reads |-> TRUE,
                                       native |-> idx, copied |-> TRUE]),
                                  param_index |-> prev.param_index + 1,
                                  ignored |-> prev.ignored,
                                  locals |-> prev.locals + 1]
                            ELSE [bind |-> Append(prev.bind,
                                      [bound |-> TRUE, ptr |-> Val("param", idx),
                                       reads |-> TRUE, native |-> idx,
                                       copied |-> FALSE]),
                                  param_index |-> prev.param_index + 1,
                                  ignored |-> prev.ignored,
                                  locals |-> prev.locals]
                       [] OTHER ->
                            [prev EXCEPT !.bind = Append(@, Unbound),
                                         !.param_index = @ + 1]
    IN  loop[n]

\* The guard of the fast path for named results
DeferFree(t) == t.defer = "unused"

\* The pointer the fast path computes for result i (0-based) into the `ptr`
\* of the branch it runs in: a hidden result parameter, the return pointer,
\* or a member of the returned tuple.
FastPathInnerPtr(t, i) ==
    LET has_return_ptr == t.ret_kind = "indirect" IN
    IF t.split
    THEN IF i + 1 < t.result_count
         THEN Val("param", ParamOffset(t) + OriginalArgCount(t) + i)
         ELSE IF has_return_ptr THEN Val("param", 0) ELSE Null
    ELSE IF has_return_ptr
         THEN IF t.result_count > 1 THEN Val("tuple_ep", i) ELSE Val("param", 0)
         ELSE Null

NamedResultPtr_Unshadowed(t, i) ==
    IF DeferFree(t) THEN FastPathInnerPtr(t, i) ELSE Null

NamedResultPtr_NoDeferCheck(t, i) == FastPathInnerPtr(t, i)

\* The `ptr` tested by `if (ptr.value != nullptr)`: the one declared before
\* the branches.  Both branches declare a `ptr` of their own and assign that
\* one, so the tested one keeps its initial null value.
NamedResultPtr(t, i) ==
    IF DeferFree(t)
    THEN LET inner == FastPathInnerPtr(t, i) IN Null
    ELSE Null

\* The loop over results->variables: what each named result is bound to.
BindResults(t, locals0) ==
    LET n == IF t.has_named_results THEN t.result_count ELSE 0
        loop[i \in 0..n] ==
            IF i = 0 THEN [bind |-> <<>>, locals |-> locals0]
            ELSE LET prev == loop[i - 1]
                     ptr == NamedResultPtr(t, i - 1)
                 IN  IF ptr # Null
                     THEN [bind |-> Append(prev.bind, ptr), locals |-> prev.locals]
                     ELSE [bind |-> Append(prev.bind, Val("local", prev.locals + 1)),
                           locals |-> prev.locals + 1]
    IN  loop[n]

InitBody ==
    /\ body_pt \in {t \in BodyProcTypes(MaxBodyParams, MaxResults) : WellFormedBodyType(t)}
    /\ body_pc = "entry"
    /\ param_bind = <<>>
    /\ result_bind = <<>>
    /\ body_locals = 0
    /\ self_call = <<>>
    /\ IdleProc
    /\ IdleCall
    /\ IdleVari
    /\ IdleDefer
    /\ IdleSimd
    /\ IdleBuiltin
    /\ IdleNested
    /\ IdleInternal
    /\ IdleFix
    /\ IdleReduce
    /\ IdleRotate
    /\ IdleBuf
    /\ IdleEnd
    /\ IdleSys
    /\ IdleUtf

BeginProcedureBody ==
    /\ body_pc = "entry"
    /\ LET ps == BindParams(body_pt, body_locals)
           rs == BindResults(body_pt, ps.locals)
       IN  /\ param_bind' = ps.bind
           /\ result_bind' = rs.bind
           /\ body_locals' = rs.locals
    /\ body_pc' = "body"
    /\ UNCHANGED <<body_pt, self_call>>
    /\ UNCHANGED notBodyVars

\* Arguments of a call of the procedure to itself: one per parameter.
SelfArgs(t) == [i \in 1..ParamCount(t) |-> Val("arg", i)]

\* lb_emit_call on the procedure's own value from inside its body.
EmitCallToSelf ==
    /\ body_pc = "body"
    /\ ArityOk(body_pt, ParamCount(body_pt))
    /\ self_call' = NativeArgs(body_pt, ProcessedArgs(body_pt, SelfArgs(body_pt)))
    /\ body_pc' = "called"
    /\ UNCHANGED <<body_pt, param_bind, result_bind, body_locals>>
    /\ UNCHANGED notBodyVars

NextBody == BeginProcedureBody \/ EmitCallToSelf

(***************************************************************************)
(* One call site: lb_emit_call on a callee of any procedure type           *)
(***************************************************************************)
CallParamShapes ==
    {Param("nonvar", TRUE, 0), Param("ignore", TRUE, 0),
     Param("direct", TRUE, 8), Param("indirect", TRUE, 24)}

\* The checker accepts #c_vararg only for conventions other than "odin" and
\* "contextless".
CallProcTypes(maxParams, maxResults) ==
    {[params |-> ps, cc |-> c.cc, c_vararg |-> c.c_vararg,
      result_count |-> r.result_count, ret_kind |-> r.ret_kind, split |-> r.split] :
        ps \in SeqsUpTo(CallParamShapes, maxParams),
        c \in {[cc |-> "odin", c_vararg |-> FALSE],
               [cc |-> "contextless", c_vararg |-> FALSE],
               [cc |-> "c", c_vararg |-> FALSE],
               [cc |-> "c", c_vararg |-> TRUE]},
        r \in UNION {RetShapes(cc, maxResults) : cc \in CallingConventions}}

InitCall ==
    /\ call_pt \in {t \in CallProcTypes(MaxCallParams, MaxCallResults) : t.split => IsOdinCC(t.cc)}
    /\ call_args = <<>>
    /\ call_pc = "ready"
    /\ processed_args = <<>>
    /\ native_call = <<>>
    /\ call_result = Null
    /\ tuple_fix = <<>>
    /\ call_block = <<>>
    /\ IdleProc
    /\ IdleBody
    /\ IdleVari
    /\ IdleDefer
    /\ IdleSimd
    /\ IdleBuiltin
    /\ IdleNested
    /\ IdleInternal
    /\ IdleFix
    /\ IdleReduce
    /\ IdleRotate
    /\ IdleBuf
    /\ IdleEnd
    /\ IdleSys
    /\ IdleUtf

\* lb_emit_call with nargs arguments, up to the tuple fix.
EmitCall(nargs) ==
    /\ call_pc = "ready"
    /\ LET args == [i \in 1..nargs |-> Val("arg", i)]
           processed == ProcessedArgs(call_pt, args)
           native == NativeArgs(call_pt, processed)
       IN  /\ call_args' = args
           /\ IF ~ArityOk(call_pt, nargs)
              THEN /\ call_pc' = "fatal"
                   /\ UNCHANGED <<processed_args, native_call, call_result, tuple_fix, call_block>>
              ELSE IF Len(native) < NativeParamCount(call_pt)
              THEN /\ call_pc' = "fatal"
                   /\ processed_args' = processed
                   /\ UNCHANGED <<native_call, call_result, tuple_fix, call_block>>
              ELSE /\ call_pc' = "emitted"
                   /\ processed_args' = processed
                   /\ native_call' = native
                   /\ call_result' = CallResult(call_pt)
                   /\ tuple_fix' = IF call_pt.split
                                   THEN TupleFixValues(call_pt, args)
                                   ELSE <<>>
                   /\ call_block' = CallBlock(call_pt, native)
    /\ UNCHANGED call_pt
    /\ UNCHANGED notCallVars

NextCall == \E nargs \in 0..(MaxCallParams + MaxExtraArgs) : EmitCall(nargs)

(***************************************************************************)
(* lb_build_call_expr_internal: the argument list of a regular call and    *)
(* the variadic buffer reuse of the procedure p being generated            *)
(*                                                                         *)
(* A slice type is named by its element type, so two slice types are       *)
(* structurally identical exactly when the names are equal.  An argument   *)
(* is [k, n]: n is its position in args (1-based), k what was put there:   *)
(*   expr        a positional expression       const   a constant or type  *)
(*   slice_load  lb_addr_load of the slice     spread  the `..s` operand   *)
(*   c_vararg    lb_emit_c_vararg of one value named   a named argument    *)
(*   zero        the zero lbValue of array_resize                          *)
(*   nil_slice   lb_const_nil of the slice     default lb_handle_param_value *)
(* A positional expression in front of the variadic parameter yields one   *)
(* value, and so does a variadic expression.                               *)
(***************************************************************************)
SliceElems == {"int", "any"}

\* are_types_identical(vr.slice_type, slice_type)
AreTypesIdentical(a, b) == a = b

\* The callee's procedure type.  fixed are the parameters in front of the
\* variadic one (Entity_Variable, or Entity_TypeName/Entity_Constant as
\* "nonvar"), variadic is "none", "odin" (a slice parameter) or "c"
\* (#c_vararg), trailing the number of parameters behind an Odin variadic
\* parameter, elem the element type of the variadic slice.
FixedParamShapes ==
    {<<>>, <<Param("direct", TRUE, 8)>>, <<Param("nonvar", TRUE, 0)>>}

VariCallees ==
    LET fixeds == FixedParamShapes
    IN  {[elem |-> "int", fixed |-> f, trailing |-> 0, variadic |-> "none"] :
            f \in fixeds}
        \cup {[elem |-> "any", fixed |-> f, trailing |-> 0, variadic |-> "c"] :
                f \in fixeds}
        \cup {[elem |-> e, fixed |-> f, trailing |-> t, variadic |-> "odin"] :
                f \in fixeds, t \in 0..1, e \in SliceElems}

\* The callee as lb_emit_call sees it
VariProcType(c) ==
    [params |-> c.fixed
                \o (IF c.variadic = "odin" THEN <<Param("direct", TRUE, 16)>> ELSE <<>>)
                \o [j \in 1..c.trailing |-> Param("direct", TRUE, 8)],
     cc |-> IF c.variadic = "c" THEN "c" ELSE "odin",
     c_vararg |-> c.variadic = "c",
     result_count |-> 0, ret_kind |-> "none", split |-> FALSE]

\* A call expression the checker accepted.
\*   npos    positional arguments in front of the variadic parameter
\*   nvar    positional arguments from the variadic parameter on
\*   expand  ce->ellipsis is set (f(..s))
\*   named   the positions of the parameters passed by name
\*   pt      the callee's procedure type
\* A #c_vararg call whose fixed parameters are not all positional is left
\* out: its args array is not resized and a named argument would be written
\* past its end.
VariCall(c, np, nv, x, nm) ==
    [callee |-> c, expand |-> x, named |-> nm, npos |-> np, nvar |-> nv,
     pt |-> VariProcType(c)]

NposOf(c) == IF c.variadic = "c" THEN {Len(c.fixed)} ELSE 0..Len(c.fixed)

NvarOf(c, np) ==
    IF c.variadic # "none" /\ np = Len(c.fixed) THEN 0..MaxVariadicArgs ELSE {0}

ExpandOf(c, nv) == IF c.variadic = "odin" /\ nv = 1 THEN BOOLEAN ELSE {FALSE}

\* pt->variadic_index, as a 1-based position
VariadicPos(c) == Len(c.fixed) + 1

NamedOf(c, np, nv) ==
    SUBSET (((np + 1)..ParamCount(VariProcType(c)))
            \ (IF nv > 0 THEN {VariadicPos(c)} ELSE {}))

\* lb_add_local_generated: the address of the next local of p
NewLocal(proc) == Val("local", proc.locals + 1)

FindReuse_Never(reuses, slice_type) == 0

\* for (auto const &vr : p->variadic_reuses) if (are_types_identical(...)):
\* the index of the first entry of the slice type, 0 if there is none
FindReuse(reuses, slice_type) ==
    IF \E i \in 1..Len(reuses) : AreTypesIdentical(reuses[i].slice_type, slice_type)
    THEN CHOOSE i \in 1..Len(reuses) :
            /\ AreTypesIdentical(reuses[i].slice_type, slice_type)
            /\ \A j \in 1..(i - 1) : ~AreTypesIdentical(reuses[j].slice_type, slice_type)
    ELSE 0

\* The search of d->variadic_reuses, entered when d != nullptr and the
\* procedure's own table had no entry: on a match the slice address is the
\* first entry's (LLVM_VERSION_MAJOR >= 13) or a new local, and the slice
\* type is registered with it.
RegisterFromDecl(proc, decl, slice_type) ==
    IF \E t \in decl.types : AreTypesIdentical(t, slice_type)
    THEN LET share == decl.llvm13 /\ Len(proc.reuses) > 0
             slice == IF share THEN proc.reuses[1].slice_addr ELSE NewLocal(proc)
         IN  [proc |-> [proc EXCEPT
                          !.locals = IF share THEN @ ELSE @ + 1,
                          !.reuses = Append(@, [slice_type |-> slice_type,
                                                slice_addr |-> slice])],
              slice |-> slice]
    ELSE [proc |-> proc, slice |-> Null]

\* The slice address after both searches
LookupSlice(proc, decl, slice_type) ==
    LET i == FindReuse(proc.reuses, slice_type)
    IN  IF i # 0 THEN [proc |-> proc, slice |-> proc.reuses[i].slice_addr]
        ELSE IF decl.has_decl THEN RegisterFromDecl(proc, decl, slice_type)
        ELSE [proc |-> proc, slice |-> Null]

\* base_array_ptr: p->variadic_reuse_base_array_ptr, allocated on first use
\* with d->variadic_reuse_max_bytes; without a DeclInfo a local of
\* slice_len elements that the procedure does not keep.
BaseArrayPtr(proc, decl, slice_type, slice_len) ==
    IF proc.base # Null THEN [proc |-> proc, base |-> proc.base]
    ELSE IF decl.has_decl
    THEN [proc |-> [proc EXCEPT !.locals = @ + 1,
                                !.base = NewLocal(proc),
                                !.base_allocs = Append(@, "max_bytes")],
          base |-> NewLocal(proc)]
    ELSE [proc |-> [proc EXCEPT !.locals = @ + 1,
                                !.base_allocs = Append(@, "elem_times_len")],
          base |-> NewLocal(proc)]

\* The slice_len > 0 branch: the slice address and the base array the
\* variadic values are stored to, and the procedure afterwards.
PackVariadic(proc, decl, slice_type, slice_len) ==
    LET a == LookupSlice(proc, decl, slice_type)
        b == BaseArrayPtr(a.proc, decl, slice_type, slice_len)
        fresh == a.slice = Null
        slice == IF fresh THEN NewLocal(b.proc) ELSE a.slice
    IN  [proc |-> [b.proc EXCEPT !.locals = IF fresh THEN @ + 1 ELSE @],
         slice |-> slice, base |-> b.base]

\* The call packs its variadic arguments into a slice
Packs(call) ==
    call.callee.variadic = "odin" /\ call.nvar > 0 /\ ~call.expand

\* var_args.count
SliceLen(call) == call.nvar

\* args.count after the loop over split_args->positional
PositionalCount(call) ==
    call.npos + (IF call.nvar = 0 THEN 0
                 ELSE IF call.callee.variadic = "c" THEN call.nvar
                 ELSE 1)

\* args[i] after the loop over split_args->positional, i <= PositionalCount
PositionalArg(call, i) ==
    IF i <= call.npos
    THEN (IF call.callee.fixed[i].kind = "nonvar" THEN Val("const", i) ELSE Val("expr", i))
    ELSE IF call.callee.variadic = "c" THEN Val("c_vararg", i)
    ELSE IF call.expand THEN Val("spread", i)
    ELSE IF SliceLen(call) > 0 THEN Val("slice_load", i)
    ELSE Val("nil_slice", i)

\* if (!is_c_vararg) array_resize(&args, pt->param_count);
ResizedCount(call) ==
    IF call.callee.variadic = "c" THEN PositionalCount(call)
    ELSE ParamCount(call.pt)

ResizedArg(call, i) ==
    IF i <= PositionalCount(call) THEN PositionalArg(call, i) ELSE Val("zero", i)

\* The loop over split_args->named: a named argument is stored at its
\* parameter's index; the named #c_vararg parameter is appended instead.
NamedAppends(call) ==
    call.callee.variadic = "c" /\ VariadicPos(call.callee) \in call.named

NamedCount(call) == ResizedCount(call) + (IF NamedAppends(call) THEN 1 ELSE 0)

NamedArg(call, i) ==
    IF i > ResizedCount(call) THEN Val("c_vararg", i)
    ELSE IF i \in call.named
            /\ ~(call.callee.variadic = "c" /\ i = VariadicPos(call.callee))
    THEN Val("named", i)
    ELSE ResizedArg(call, i)

\* lb_handle_param_value, lb_const_nil or lb_const_value of parameter i
ParamDefault(call, i) ==
    IF call.pt.params[i].kind = "nonvar"
    THEN Val("const", i) ELSE Val("default", i)

DefaultArg_NoNilSlice(call, i) ==
    IF call.callee.variadic # "none" /\ i = VariadicPos(call.callee)
    THEN NamedArg(call, i)
    ELSE IF i <= Len(call.pt.params) /\ NamedArg(call, i).k = "zero"
    THEN ParamDefault(call, i)
    ELSE NamedArg(call, i)

\* args[i] after the loop over pt->params->Tuple.variables: the variadic
\* parameter left unset becomes the nil slice (never for #c_vararg), any
\* other parameter left unset gets its default, every other argument is
\* converted to the parameter's type.
DefaultArg(call, i) ==
    IF call.callee.variadic # "none" /\ i = VariadicPos(call.callee)
    THEN (IF call.callee.variadic # "c" /\ NamedArg(call, i).k = "zero"
          THEN Val("nil_slice", i) ELSE NamedArg(call, i))
    ELSE IF i <= Len(call.pt.params) /\ NamedArg(call, i).k = "zero"
    THEN ParamDefault(call, i)
    ELSE NamedArg(call, i)

\* GB_ASSERT(args.count >= min_count);
MinCountOk(call) ==
    NamedCount(call) >= ParamCount(call.pt)
                        - (IF call.callee.variadic = "c" THEN 1 ELSE 0)

\* isize final_count = is_c_vararg ? args.count : pt->param_count;
FinalCount(call) ==
    IF call.callee.variadic = "c" THEN NamedCount(call)
    ELSE ParamCount(call.pt)

\* call_args = array_slice(args, 0, final_count)
CallArgs(call) == [i \in 1..FinalCount(call) |-> DefaultArg(call, i)]

InitVari ==
    /\ var_decl \in {[has_decl |-> h, types |-> ts, llvm13 |-> l] :
                        h \in BOOLEAN, ts \in SUBSET SliceElems, l \in BOOLEAN}
    /\ ~var_decl.has_decl => var_decl.types = {}
    /\ var_proc = [reuses |-> <<>>, base |-> Null, locals |-> 0,
                   base_allocs |-> <<>>, site_log |-> {}, nsites |-> 0, npacked |-> 0]
    /\ var_site = NoSite
    /\ IdleProc
    /\ IdleBody
    /\ IdleCall
    /\ IdleDefer
    /\ IdleSimd
    /\ IdleBuiltin
    /\ IdleNested
    /\ IdleInternal
    /\ IdleFix
    /\ IdleReduce
    /\ IdleRotate
    /\ IdleBuf
    /\ IdleEnd
    /\ IdleSys
    /\ IdleUtf

\* lb_build_call_expr_internal on one regular call expression of the
\* procedure, through lb_emit_call and the native call.
BuildCallExpr(c, np, nv, x, nm) ==
    /\ var_proc.nsites < MaxSites
    /\ \E call \in {VariCall(c, np, nv, x, nm)} :
       \E pt \in {call.pt} :
       \E packed \in {IF Packs(call) /\ SliceLen(call) > 0
                      THEN PackVariadic(var_proc, var_decl, call.callee.elem, SliceLen(call))
                      ELSE [proc |-> var_proc, slice |-> Null, base |-> Null]} :
       \E args \in {CallArgs(call)} :
       \E native \in {NativeArgs(pt, ProcessedArgs(pt, args))} :
       \E ok \in {MinCountOk(call) /\ ArityOk(pt, Len(args))} :
           /\ var_proc' =
                [packed.proc EXCEPT
                    !.nsites = @ + 1,
                    !.npacked = IF Packs(call) THEN @ + 1 ELSE @,
                    !.site_log = IF Packs(call)
                                 THEN @ \cup {[slice_type |-> call.callee.elem,
                                               slice_addr |-> packed.slice,
                                               base |-> packed.base]}
                                 ELSE @]
           /\ var_site' =
                [done |-> TRUE, call |-> call,
                 slice_addr |-> packed.slice, base |-> packed.base,
                 new_locals |-> packed.proc.locals - var_proc.locals,
                 new_reuses |-> Len(packed.proc.reuses) - Len(var_proc.reuses),
                 args |-> IF MinCountOk(call) THEN args ELSE <<>>,
                 status |-> IF ok /\ Len(native) >= NativeParamCount(pt)
                            THEN "emitted" ELSE "fatal",
                 native |-> IF ok THEN native ELSE <<>>]
    /\ UNCHANGED var_decl
    /\ UNCHANGED notVariVars

NextVari ==
    \E c \in VariCallees : \E np \in NposOf(c) : \E nv \in NvarOf(c, np) :
    \E x \in ExpandOf(c, nv) : \E nm \in NamedOf(c, np, nv) :
        BuildCallExpr(c, np, nv, x, nm)

(***************************************************************************)
(* Deferred procedures: the tail of lb_emit_call, and lb_end_procedure_body *)
(*                                                                         *)
(* More values:                                                            *)
(*   function e          the native function of procedure entity e         *)
(*   bitcast_function e  a constant bit-cast of it                         *)
(*   inttoptr, integer   a constant address used as a procedure, its operand *)
(*   load_var n          the value loaded from variable n; var n its address *)
(*   expr n              a value that is not a load instruction            *)
(*   load_result_ptr     the tuple-fix key of a split-return call          *)
(*   extract j           member j of a tuple value (0-based)               *)
(*   copy n              the address of a local generated to hold a value  *)
(* An instruction of the block is [op, id]: "call" (a call of the callee,   *)
(* id the deferred entry it registered or 0), "deferred" (the call of      *)
(* deferred entry id), "ret", "unreachable".                               *)
(***************************************************************************)
DeferredKinds == {"in", "out", "in_out", "in_by_ptr", "out_by_ptr", "in_out_by_ptr"}

\* What the callee value is: the function of an entity, a constant bit-cast
\* of it, a constant address, or a value computed at run time.
CalleeValues ==
    {Val("function", 1), Val("bitcast_function", 1), Val("inttoptr", 0),
     Val("load_var", 0)}

\* The result shapes of the callees: none, one value (direct or through the
\* return pointer), a tuple returned as one aggregate, a split tuple.
DeferRetShapes ==
    {[result_count |-> 0, ret_kind |-> "none", split |-> FALSE],
     [result_count |-> 1, ret_kind |-> "direct", split |-> FALSE],
     [result_count |-> 1, ret_kind |-> "indirect", split |-> FALSE],
     [result_count |-> 2, ret_kind |-> "indirect", split |-> FALSE],
     [result_count |-> 2, ret_kind |-> "direct", split |-> TRUE]}

\* The callees: value is what is called, kind the deferred_procedure.kind of
\* the entity ("no_deferred": the entity has no deferred procedure), nargs
\* and loaded the arguments (the first loaded of them are load
\* instructions), ret the result shape.
DeferCallees(maxArgs) ==
    {[value |-> v, kind |-> k, nargs |-> n, loaded |-> l, ret |-> r] :
        v \in CalleeValues, k \in DeferredKinds \cup {"no_deferred"},
        n \in 0..maxArgs, l \in 0..maxArgs, r \in DeferRetShapes}

\* The callee's procedure type: Odin convention, every parameter Direct
DeferProcType(c) ==
    [params |-> [i \in 1..c.nargs |-> Param("direct", TRUE, 8)],
     cc |-> "odin", c_vararg |-> FALSE,
     result_count |-> c.ret.result_count, ret_kind |-> c.ret.ret_kind,
     split |-> c.ret.split]

\* The args handed to lb_emit_call
DeferCallArgs(c) ==
    [i \in 1..c.nargs |-> IF i <= c.loaded THEN Val("load_var", i) ELSE Val("expr", i)]

\* LLVMIsAConstantExpr
IsAConstantExpr(v) == v.k \in {"bitcast_function", "inttoptr"}

\* LLVMGetOperand(v, 0) of a constant expression
Operand0(v) ==
    IF v.k = "bitcast_function" THEN Val("function", v.n) ELSE Val("integer", v.n)

\* the_proc_value: the callee with one constant expression stripped
TheProcValue(v) == IF IsAConstantExpr(v) THEN Operand0(v) ELSE v

\* map_get(&p->module->procedure_values, the_proc_value) != nullptr
FoundProcedureValue(v) == v.k = "function"

\* entity_has_deferred_procedure(e)
EntityHasDeferredProcedure(c) == c.kind # "no_deferred"

\* The result of lb_emit_call: the tuple-fix key for a split return
DeferCallResult(pt) ==
    IF pt.split THEN Val("load_result_ptr", 0) ELSE CallResult(pt)

\* lb_append_tuple_values: the tuple-fix values when the value is a key of
\* p->tuple_fix_map, else the members extracted from the aggregate
AppendTupleValues(pt, args) ==
    IF pt.split THEN TupleFixValues(pt, args)
    ELSE [j \in 1..pt.result_count |-> Val("extract", j - 1)]

\* lb_value_to_array(p, allocator, result)
ValueToArray(pt, args) ==
    IF pt.result_count = 0 THEN <<>>
    ELSE IF pt.result_count > 1 THEN AppendTupleValues(pt, args)
    ELSE <<DeferCallResult(pt)>>

ByPtr_Never(kind) == FALSE

\* bool by_ptr after the switch on the kind
ByPtr(kind) == kind \in {"in_by_ptr", "out_by_ptr", "in_out_by_ptr"}

ResultAsArgs_OutOnly(kind, in_args, out_args) == out_args

\* result_as_args after the switch on the kind
ResultAsArgs(kind, in_args, out_args) ==
    CASE kind \in {"in", "in_by_ptr"} -> in_args
      [] kind \in {"out", "out_by_ptr"} -> out_args
      [] kind \in {"in_out", "in_out_by_ptr"} -> in_args \o out_args
      [] OTHER -> <<>>

\* LLVMIsALoadInst
IsLoad(v) ==
    v.k \in {"load_var", "load_partial_ret", "load_return_ptr", "load_local",
             "load_ptr", "load_result_ptr"}

\* The pointer operand of a load
LoadAddress(v) ==
    CASE v.k = "load_var" -> Val("var", v.n)
      [] v.k = "load_partial_ret" -> Val("partial_ret", v.n)
      [] v.k = "load_return_ptr" -> Val("return_ptr", v.n)
      [] v.k = "load_local" -> Val("local", v.n)
      [] v.k = "load_ptr" -> Val("ptr", v.n)
      [] OTHER -> Val("result_ptr", v.n)

\* lb_address_from_load_or_generate_local, applied to result_as_args in
\* order: the pointer operand of a load, else a new local holding a copy.
\* locals is the number of locals generated before.
AddressesOf(values, locals) ==
    [i \in 1..Len(values) |->
        IF IsLoad(values[i]) THEN LoadAddress(values[i])
        ELSE Val("copy", locals + Cardinality({j \in 1..i : ~IsLoad(values[j])}))]

\* The argument list of the deferred entry
DeferredArgs(c, locals) ==
    LET pt == DeferProcType(c)
        raw == ResultAsArgs(c.kind, DeferCallArgs(c), ValueToArray(pt, DeferCallArgs(c)))
    IN  IF ByPtr(c.kind) THEN AddressesOf(raw, locals) ELSE raw

\* The number of locals lb_address_from_load_or_generate_local generated
GeneratedLocals(c) ==
    LET pt == DeferProcType(c)
        raw == ResultAsArgs(c.kind, DeferCallArgs(c), ValueToArray(pt, DeferCallArgs(c)))
    IN  IF ByPtr(c.kind) THEN Cardinality({j \in 1..Len(raw) : ~IsLoad(raw[j])}) ELSE 0

\* The callee resolves to an entity with a deferred procedure
RegistersDeferred(c) ==
    /\ FoundProcedureValue(TheProcValue(c.value))
    /\ EntityHasDeferredProcedure(c)

\* An entry of p->defer_stmts, as lb_add_defer_proc records it: the scope
\* index, the deferred procedure and its arguments; id is the position in
\* the order of registration.
DeferEntry(id, scope, args) == [args |-> args, id |-> id, scope |-> scope]

Instr(op, id) == [id |-> id, op |-> op]

\* lb_is_instr_terminating on the last instruction of a block
BlockTerminated(b) == Len(b) > 0 /\ b[Len(b)].op \in {"ret", "br", "unreachable"}

\* lb_emit_defer_stmts(p, lbDeferExit_Return, ...): every pending entry,
\* the one registered last first
EmitDeferStmtsReturn(stmts) ==
    [i \in 1..Len(stmts) |-> Instr("deferred", stmts[Len(stmts) + 1 - i].id)]

\* lb_emit_defer_stmts(p, lbDeferExit_Default, ...): the entries of the
\* scope being closed, the one registered last first
EmitDeferStmtsDefault(stmts, scope) ==
    LET mine == SelectSeq(stmts, LAMBDA d : d.scope = scope /\ d.scope > 0)
    IN  [i \in 1..Len(mine) |-> Instr("deferred", mine[Len(mine) + 1 - i].id)]

EndBlock_ReturnFirst(b, stmts, result_count) ==
    IF result_count = 0 /\ ~BlockTerminated(b)
    THEN Append(b, Instr("ret", 0)) \o EmitDeferStmtsReturn(stmts)
    ELSE IF ~BlockTerminated(b) THEN Append(b, Instr("unreachable", 0))
    ELSE b

\* lb_end_procedure_body on the current block: a procedure without results
\* whose block is not terminated gets its pending deferred entries and a
\* "ret void"; a block still not terminated gets "unreachable".
EndBlock(b, stmts, result_count) ==
    IF result_count = 0 /\ ~BlockTerminated(b)
    THEN Append(b \o EmitDeferStmtsReturn(stmts), Instr("ret", 0))
    ELSE IF ~BlockTerminated(b) THEN Append(b, Instr("unreachable", 0))
    ELSE b

WellFormedDeferCallee(c) ==
    /\ c.loaded <= c.nargs
    /\ c.value.k \notin {"function", "bitcast_function"} => c.kind = "no_deferred"

InitDefer ==
    /\ defer_proc \in {[callee |-> c, result_count |-> r] :
                          c \in {d \in DeferCallees(MaxDeferArgs) : WellFormedDeferCallee(d)},
                          r \in 0..1}
    /\ defer_stmts = <<>>
    /\ scope_index = 0
    /\ block = <<>>
    /\ defer_pc = "body"
    /\ defer_count = [locals |-> 0, registered |-> 0]
    /\ defer_site = NoSite
    /\ IdleProc
    /\ IdleBody
    /\ IdleCall
    /\ IdleVari
    /\ IdleSimd
    /\ IdleBuiltin
    /\ IdleNested
    /\ IdleInternal
    /\ IdleFix
    /\ IdleReduce
    /\ IdleRotate
    /\ IdleBuf
    /\ IdleEnd
    /\ IdleSys
    /\ IdleUtf

\* lb_emit_call on the callee, from the native call to the end
EmitCallDeferred ==
    /\ defer_pc = "body"
    /\ Len(SelectSeq(block, LAMBDA i : i.op = "call")) < MaxDeferCalls
    /\ \E c \in {defer_proc.callee} :
       \E added \in {IF RegistersDeferred(c)
                     THEN <<DeferEntry(defer_count.registered + 1, scope_index,
                                       DeferredArgs(c, defer_count.locals))>>
                     ELSE <<>>} :
           /\ block' = Append(block, Instr("call", IF added = <<>> THEN 0 ELSE added[1].id))
           /\ defer_stmts' = defer_stmts \o added
           /\ defer_count' =
                [locals |-> defer_count.locals
                            + (IF RegistersDeferred(c) THEN GeneratedLocals(c) ELSE 0),
                 registered |-> defer_count.registered + Len(added)]
           /\ defer_site' = [done |-> TRUE, scope |-> scope_index,
                             locals |-> defer_count.locals, added |-> added]
    /\ UNCHANGED <<defer_proc, scope_index, defer_pc>>
    /\ UNCHANGED notDeferVars

\* lb_open_scope
OpenScope ==
    /\ defer_pc = "body"
    /\ scope_index < MaxScope
    /\ scope_index' = scope_index + 1
    /\ UNCHANGED <<defer_proc, defer_stmts, block, defer_pc, defer_count, defer_site>>
    /\ UNCHANGED notDeferVars

\* lb_close_scope(p, lbDeferExit_Default, ...): the entries of the scope are
\* emitted and popped
CloseScope ==
    /\ defer_pc = "body"
    /\ scope_index > 0
    /\ block' = block \o EmitDeferStmtsDefault(defer_stmts, scope_index)
    /\ defer_stmts' = SelectSeq(defer_stmts, LAMBDA d : d.scope # scope_index)
    /\ scope_index' = scope_index - 1
    /\ UNCHANGED <<defer_proc, defer_pc, defer_count, defer_site>>
    /\ UNCHANGED notDeferVars

\* A return statement: every pending entry is emitted, then the return
ReturnStmt ==
    /\ defer_pc = "body"
    /\ block' = Append(block \o EmitDeferStmtsReturn(defer_stmts), Instr("ret", 0))
    /\ defer_pc' = "returned"
    /\ UNCHANGED <<defer_proc, defer_stmts, scope_index, defer_count, defer_site>>
    /\ UNCHANGED notDeferVars

\* lb_end_procedure_body
EndProcedureBody ==
    /\ defer_pc \in {"body", "returned"}
    /\ defer_pc = "body" => scope_index = 0
    /\ block' = EndBlock(block, defer_stmts, defer_proc.result_count)
    /\ defer_pc' = IF defer_pc = "body" THEN "ended" ELSE "ended_after_return"
    /\ UNCHANGED <<defer_proc, defer_stmts, scope_index, defer_count, defer_site>>
    /\ UNCHANGED notDeferVars

NextDefer ==
    \/ EmitCallDeferred
    \/ OpenScope
    \/ CloseScope
    \/ ReturnStmt
    \/ EndProcedureBody

(***************************************************************************)
(* lb_build_builtin_simd_proc: the shifts and the runtime swizzle          *)
(*                                                                         *)
(* A lane is an integer of the element's width w, held as 0..2^w-1. The    *)
(* result of an LLVM shift by w or more is poison.                         *)
(***************************************************************************)
SimdShiftIds == {"simd_shl", "simd_shr", "simd_shl_masked", "simd_shr_masked"}

Poison == -1

RECURSIVE BitAnd(_, _)
\* LLVMBuildAnd on two non-negative integers
BitAnd(a, b) ==
    IF a = 0 \/ b = 0 THEN 0
    ELSE (a % 2) * (b % 2) + 2 * BitAnd(a \div 2, b \div 2)

\* LLVMShl, LLVMLShr, LLVMAShr on lanes of width w
LLVMShift(op, x, s, w) ==
    IF s >= w THEN Poison
    ELSE CASE op = "LLVMShl" -> (x * 2^s) % 2^w
           [] op = "LLVMLShr" -> x \div 2^s
           [] OTHER -> IF x >= 2^(w - 1)
                       THEN 2^w - 1 - ((2^w - 1 - x) \div 2^s)
                       ELSE x \div 2^s

\* op_code of the shift builtins
ShiftOpCode(id, is_signed) ==
    IF id \in {"simd_shl", "simd_shl_masked"} THEN "LLVMShl"
    ELSE IF is_signed THEN "LLVMAShr" ELSE "LLVMLShr"

\* is_masked
IsMasked(id) == id \in {"simd_shl_masked", "simd_shr_masked"}

ShiftBits_Width(sz) == sz * 8

\* bits: the splat of sz*8 - 1
ShiftBits(sz) == sz * 8 - 1

\* LLVMBuildSelect on one lane
Select(c, a, b) == IF c THEN a ELSE b

\* One lane of the result of a shift builtin: "C logic" when masked, "Odin
\* logic" otherwise
SimdShiftLane(id, is_signed, sz, x, amount) ==
    LET op == ShiftOpCode(id, is_signed)
        bits == ShiftBits(sz)
    IN  IF IsMasked(id)
        THEN LLVMShift(op, x, BitAnd(amount, bits), sz * 8)
        ELSE Select(amount <= bits, LLVMShift(op, x, amount, sz * 8), 0)

\* The element sizes of the shifted vectors in the model (bytes)
ShiftElemSizes == {1, 2}

\* The lane counts of the shifted vectors in the model
ShiftLaneCounts == {1, 2}

\* The lanes and the shift amounts tried for an element of sz bytes
LaneSamples(sz) == {1, 2^(sz * 8 - 1) + 2, 2^(sz * 8) - 1}
AmountSamples(sz) == {0, sz * 8 - 1, sz * 8, sz * 8 + 1, 2^(sz * 8) - 1}

\* ---- simd_runtime_swizzle ----
TargetArchs == {"amd64", "i386", "arm64", "arm32", "wasm32", "wasm64p32", "riscv64"}

\* The sets of target features tried
FeatureSets ==
    {{}, {"ssse3"}, {"ssse3", "avx2"},
     {"ssse3", "avx2", "avx512f", "avx512bw"}, {"neon"}, {"simd128"}}

NoIntrinsic == "nullptr"

\* intrinsic_name after the strategy selection
IntrinsicName(arch, elem_size, count) ==
    IF elem_size # 1 THEN NoIntrinsic
    ELSE IF arch \in {"amd64", "i386"}
    THEN CASE count = 16 -> "llvm.x86.ssse3.pshuf.b.128"
           [] count = 32 -> "llvm.x86.avx2.pshuf.b"
           [] count = 64 -> "llvm.x86.avx512.pshuf.b.512"
           [] OTHER -> NoIntrinsic
    ELSE IF arch = "arm64"
    THEN CASE count = 16 -> "llvm.aarch64.neon.tbl1"
           [] count = 32 -> "llvm.aarch64.neon.tbl2"
           [] count = 48 -> "llvm.aarch64.neon.tbl3"
           [] count = 64 -> "llvm.aarch64.neon.tbl4"
           [] OTHER -> NoIntrinsic
    ELSE IF arch = "arm32"
    THEN CASE count = 8 -> "llvm.arm.neon.vtbl1"
           [] count = 16 -> "llvm.arm.neon.vtbl2"
           [] count = 24 -> "llvm.arm.neon.vtbl3"
           [] count = 32 -> "llvm.arm.neon.vtbl4"
           [] OTHER -> NoIntrinsic
    ELSE IF arch \in {"wasm32", "wasm64p32"}
    THEN (IF count = 16 THEN "llvm.wasm.swizzle" ELSE NoIntrinsic)
    ELSE NoIntrinsic

\* features_enabled
FeaturesEnabled(arch, count, features) ==
    IF arch \in {"amd64", "i386"}
    THEN CASE count = 16 -> "ssse3" \in features
           [] count = 32 -> {"ssse3", "avx2"} \subseteq features
           [] count = 64 -> {"ssse3", "avx2", "avx512f", "avx512bw"} \subseteq features
           [] OTHER -> TRUE
    ELSE IF arch \in {"arm64", "arm32"} THEN "neon" \in features
    ELSE TRUE

\* The hardware instruction is used
UseHardwareSwizzle(c) ==
    /\ IntrinsicName(c.arch, c.elem_size, c.count) # NoIntrinsic
    /\ FeaturesEnabled(c.arch, c.count, c.features)

\* pshufb (SSSE3, AVX2, AVX-512BW): a zero when bit 7 of the index is set,
\* else the byte the low four bits select in the 16-byte lane of the result
PShufB(src, indices) ==
    [i \in 1..Len(src) |->
        IF indices[i] >= 128 THEN 0
        ELSE src[((i - 1) \div 16) * 16 + BitAnd(indices[i], 15) + 1]]

\* tbl1..tbl4, vtbl1..vtbl4, wasm swizzle: the byte of the table the index
\* selects, a zero when the index is outside the table
TableLookup(src, indices) ==
    [i \in 1..Len(src) |->
        IF indices[i] >= Len(src) THEN 0 ELSE src[indices[i] + 1]]

\* The call of the intrinsic on (src, indices); the parts of a split src
\* are consecutive slices of it
HardwareSwizzle(c) ==
    IF c.arch \in {"amd64", "i386"} THEN PShufB(c.src, c.indices)
    ELSE TableLookup(c.src, c.indices)

\* index_mask: max_index, for every element size
IndexMask(count) == count - 1

\* The fallback: lane i is the lane of src that the masked index selects
EmulatedSwizzle(c) ==
    [i \in 1..c.count |-> c.src[BitAnd(c.indices[i], IndexMask(c.count)) + 1]]

\* res.value of simd_runtime_swizzle
RuntimeSwizzle(c) ==
    IF UseHardwareSwizzle(c) THEN HardwareSwizzle(c) ELSE EmulatedSwizzle(c)

\* What simd_runtime_swizzle calls: the intrinsic named, or the emulation
\* with extracts and inserts
SwizzleEmitted(c) ==
    IF UseHardwareSwizzle(c) THEN IntrinsicName(c.arch, c.elem_size, c.count)
    ELSE "emulation"

\* The lane counts with a hardware instruction on some target
TableCounts == {8, 16, 24, 32, 48, 64}

SwizzleElemSizes == {1, 2, 4, 8}

\* The index values tried for one lane
IndexSamples(count) == {0, 1, count - 1, count, count + 1, 127, 128, 255}

\* src: lane j holds j + 1; indices: the identity but for one lane
SwizzleSrc(count) == [j \in 1..count |-> j]
SwizzleIndices(count, lane, v) == [j \in 1..count |-> IF j = lane THEN v ELSE j - 1]

ShiftCall(id, is_signed, sz, x, amounts) ==
    [id |-> id, is_signed |-> is_signed, sz |-> sz, arg0 |-> x, arg1 |-> amounts]

SwizzleCall(arch, features, elem_size, count, lane, v) ==
    [id |-> "simd_runtime_swizzle", arch |-> arch, features |-> features,
     elem_size |-> elem_size, count |-> count,
     src |-> SwizzleSrc(count), indices |-> SwizzleIndices(count, lane, v)]

LanesOf(S, n) == [1..n -> S]

InitSimd ==
    /\ \/ \E id \in SimdShiftIds : \E is_signed \in BOOLEAN :
          \E sz \in ShiftElemSizes : \E n \in ShiftLaneCounts :
          \E x \in LanesOf(LaneSamples(sz), n) :
          \E a \in LanesOf(AmountSamples(sz), n) :
              simd_call = ShiftCall(id, is_signed, sz, x, a)
       \/ \E arch \in TargetArchs : \E features \in FeatureSets :
          \E elem_size \in SwizzleElemSizes :
          \E count \in (1..MaxLanes) \cup TableCounts :
          \E lane \in {1, count} : \E v \in IndexSamples(count) :
              simd_call = SwizzleCall(arch, features, elem_size, count, lane, v)
    /\ simd_res = <<>>
    /\ simd_emitted = "none"
    /\ IdleProc
    /\ IdleBody
    /\ IdleCall
    /\ IdleVari
    /\ IdleDefer
    /\ IdleBuiltin
    /\ IdleNested
    /\ IdleInternal
    /\ IdleFix
    /\ IdleReduce
    /\ IdleRotate
    /\ IdleBuf
    /\ IdleEnd
    /\ IdleSys
    /\ IdleUtf

\* case BuiltinProc_simd_shl ... simd_shr_masked
BuildSimdShift ==
    /\ simd_call.id \in SimdShiftIds
    /\ simd_res = <<>>
    /\ simd_res' = [i \in 1..Len(simd_call.arg0) |->
                      SimdShiftLane(simd_call.id, simd_call.is_signed, simd_call.sz,
                                    simd_call.arg0[i], simd_call.arg1[i])]
    /\ simd_emitted' = "inline"
    /\ UNCHANGED simd_call
    /\ UNCHANGED notSimdVars

\* case BuiltinProc_simd_runtime_swizzle
BuildRuntimeSwizzle ==
    /\ simd_call.id = "simd_runtime_swizzle"
    /\ simd_res = <<>>
    /\ simd_res' = RuntimeSwizzle(simd_call)
    /\ simd_emitted' = SwizzleEmitted(simd_call)
    /\ UNCHANGED simd_call
    /\ UNCHANGED notSimdVars

NextSimd ==
    \/ BuildSimdShift
    \/ BuildRuntimeSwizzle

(***************************************************************************)
(* lb_build_builtin_proc: which builtin calls are lowered, which abort      *)
(***************************************************************************)
\* Builtin ids between BuiltinProc__simd_begin and BuiltinProc__simd_end;
\* simd_unlisted stands for an id of that range without a case label.
SimdBuiltinIds ==
    {"simd_add", "simd_rem", "simd_shl", "simd_runtime_swizzle", "simd_unlisted"}

\* The other builtin ids of the model; unlisted stands for an id without a
\* case label.
OtherBuiltinIds ==
    {"read_cycle_counter", "read_cycle_counter_frequency", "cpu_relax", "trap",
     "syscall", "syscall_bsd", "valgrind_client_request", "unlisted"}

\* How a call ends: "returned" or "fatal" (GB_PANIC); value is what the
\* returned lbValue holds ("value", "null"), emitted whether instructions
\* were built for the call.
Returned(value, emitted) == [pc |-> "returned", value |-> value, emitted |-> emitted]
Panicked == [pc |-> "fatal", value |-> "null", emitted |-> FALSE]

\* op_code of simd_add ... simd_rem: zero for simd_rem on floats
ArithOpCode(id, is_float) == IF id = "simd_rem" /\ is_float THEN 0 ELSE 1

\* lb_build_builtin_simd_proc
BuildBuiltinSimdProc(c) ==
    CASE c.id \in {"simd_add", "simd_rem"} ->
            IF ArithOpCode(c.id, c.is_float) # 0 THEN Returned("value", TRUE)
            ELSE Panicked
      [] c.id \in {"simd_shl", "simd_runtime_swizzle"} -> Returned("value", TRUE)
      [] OTHER -> Panicked

\* case BuiltinProc_read_cycle_counter_frequency
CycleCounterFrequency(arch) ==
    IF arch = "arm64" THEN Returned("value", TRUE) ELSE Returned("null", FALSE)

\* lb_build_builtin_proc
BuildBuiltinProc(c) ==
    IF c.id \in SimdBuiltinIds THEN BuildBuiltinSimdProc(c)
    ELSE CASE c.id = "read_cycle_counter" -> Returned("value", TRUE)
           [] c.id = "read_cycle_counter_frequency" -> CycleCounterFrequency(c.arch)
           [] c.id \in {"cpu_relax", "trap"} -> Returned("null", TRUE)
           [] c.id = "syscall" ->
                IF c.arch \in {"riscv64", "amd64", "i386", "arm64", "arm32"}
                THEN Returned("value", TRUE) ELSE Panicked
           [] c.id = "syscall_bsd" ->
                IF c.arch \in {"amd64", "arm64"} THEN Returned("value", TRUE)
                ELSE Panicked
           [] c.id = "valgrind_client_request" ->
                IF ~c.valgrind THEN Returned("value", TRUE)
                ELSE IF c.arch = "amd64" THEN Returned("value", TRUE)
                ELSE Panicked
           [] OTHER -> Panicked

InitBuiltin ==
    /\ builtin_call \in [id : SimdBuiltinIds \cup OtherBuiltinIds, arch : TargetArchs,
                         is_float : BOOLEAN, valgrind : BOOLEAN]
    /\ builtin_res = NoBuiltinRes
    /\ IdleProc
    /\ IdleBody
    /\ IdleCall
    /\ IdleVari
    /\ IdleDefer
    /\ IdleSimd
    /\ IdleNested
    /\ IdleInternal
    /\ IdleFix
    /\ IdleReduce
    /\ IdleRotate
    /\ IdleBuf
    /\ IdleEnd
    /\ IdleSys
    /\ IdleUtf

\* One call of lb_build_builtin_proc
BuildBuiltinCall ==
    /\ builtin_res.pc = "ready"
    /\ builtin_res' = BuildBuiltinProc(builtin_call)
    /\ UNCHANGED builtin_call
    /\ UNCHANGED notBuiltinVars

NextBuiltin == BuildBuiltinCall

(***************************************************************************)
(* lb_build_nested_proc, with lb_create_procedure run by one thread         *)
(*                                                                         *)
(* A name is a tuple: <<s>> for a name written in the source, <<>> for an   *)
(* empty link name, <<parent, name, guid>> for the name of a nested         *)
(* procedure.                                                              *)
(***************************************************************************)
NestedEntities == {"f", "g"}
NestedKinds == {"normal", "poly", "unchecked"}

SkipsCodegen_Never(kind) == FALSE

\* is_type_polymorphic && !is_foreign && is_polymorphic && !is_poly_specialized
SkipsCodegen(kind) == kind = "poly"

\* lb_get_entity_name(m, e): the link name, or a name made from the entity
GetEntityName(e, entity) == IF Len(entity.link_name) > 0 THEN entity.link_name ELSE <<e>>

\* What one call of lb_create_procedure(m, e) does to the module mod, and the
\* procedure it returns; entity is the entity, e its identity.
CreateProcedure(mod, e, entity) ==
    LET link_name == GetEntityName(e, entity)
    IN  IF SkipsCodegen(entity.kind) THEN [mod |-> mod, ret |-> NullProc]
        ELSE IF entity.kind = "unchecked"
        THEN [mod |-> [mod EXCEPT !.fatal = TRUE], ret |-> NullProc]
        ELSE IF MemberFound(mod.members, link_name)
        THEN [mod |-> [mod EXCEPT !.entity_values =
                            MapSet(@, e, mod.members[link_name])],
              ret |-> mod.procedures[link_name]]
        ELSE LET value == Len(mod.functions) + 1
                 p == Len(mod.procs) + 1
             IN  [mod |-> [mod EXCEPT
                            !.functions = Append(@, link_name),
                            !.procs = Append(@, [name |-> link_name, entity |-> e,
                                                 value |-> value]),
                            !.entity_values = MapSet(@, e, value),
                            !.members = MapSet(@, link_name, value),
                            !.procedures = MapSet(@, link_name, p)],
                  ret |-> p]

\* pd_name: the link name when it is not empty, else the token's string
PdName(e, entity) == IF Len(entity.link_name) > 0 THEN entity.link_name ELSE <<e>>

\* parent.name-guid
NestedName(parent, e, entity) == <<parent.name, PdName(e, entity), Len(parent.children)>>

Enqueue_Never(queue, nested_proc) == queue

\* array_add(&m->procedures_to_generate, nested_proc)
Enqueue(queue, nested_proc) == Append(queue, nested_proc)

InitNested ==
    /\ nest_ent \in [NestedEntities ->
                        [kind : NestedKinds, link_name : {<<>>, <<"x">>},
                         in_min_dep : BOOLEAN]]
    /\ nest_mod = EmptyModule
    /\ nest_parent = [name |-> <<"main">>, children |-> <<>>]
    /\ nest_site = [calls |-> 0, op |-> "none"]
    /\ IdleProc
    /\ IdleBody
    /\ IdleCall
    /\ IdleVari
    /\ IdleDefer
    /\ IdleSimd
    /\ IdleBuiltin
    /\ IdleInternal
    /\ IdleFix
    /\ IdleReduce
    /\ IdleRotate
    /\ IdleBuf
    /\ IdleEnd
    /\ IdleSys
    /\ IdleUtf

\* A call lb_create_procedure(m, e) made while the parent is generated
CreateProcedureCall(e) ==
    /\ ~nest_mod.fatal
    /\ nest_site.calls < MaxNestedCalls
    /\ \E r \in {CreateProcedure(nest_mod, e, nest_ent[e])} :
        /\ nest_mod' = r.mod
        /\ nest_site' = [calls |-> nest_site.calls + 1, op |-> "create", entity |-> e,
                         kind |-> nest_ent[e].kind, built |-> TRUE,
                         ret |-> r.ret, mod |-> nest_mod,
                         children |-> nest_parent.children]
    /\ UNCHANGED <<nest_ent, nest_parent>>
    /\ UNCHANGED notNestedVars

\* lb_build_nested_proc(p, pd, e)
BuildNestedProc(e) ==
    /\ ~nest_mod.fatal
    /\ nest_site.calls < MaxNestedCalls
    /\ IF ~nest_ent[e].in_min_dep
       THEN /\ nest_site' = [calls |-> nest_site.calls + 1, op |-> "nested",
                             entity |-> e, kind |-> nest_ent[e].kind,
                             built |-> FALSE, ret |-> NullProc, mod |-> nest_mod,
                             children |-> nest_parent.children]
            /\ UNCHANGED <<nest_ent, nest_mod, nest_parent>>
       ELSE \E entity \in {[nest_ent[e] EXCEPT
                            !.link_name = NestedName(nest_parent, e, nest_ent[e])]} :
            \E r \in {CreateProcedure(nest_mod, e, entity)} :
              /\ nest_ent' = [nest_ent EXCEPT ![e] = entity]
              /\ nest_site' = [calls |-> nest_site.calls + 1, op |-> "nested",
                               entity |-> e, kind |-> entity.kind, built |-> TRUE,
                               ret |-> r.ret, mod |-> nest_mod,
                               children |-> nest_parent.children]
              /\ IF r.ret = NullProc
                 THEN /\ nest_mod' = r.mod
                      /\ UNCHANGED nest_parent
                 ELSE /\ nest_mod' =
                           [r.mod EXCEPT
                              !.entity_values = MapSet(@, e, r.mod.procs[r.ret].value),
                              !.procedures_to_generate = Enqueue(@, r.ret)]
                      /\ nest_parent' = [nest_parent EXCEPT
                                           !.children = Append(@, r.ret)]
    /\ UNCHANGED notNestedVars

NextNested ==
    \/ \E e \in NestedEntities : CreateProcedureCall(e)
    \/ \E e \in NestedEntities : BuildNestedProc(e)

(***************************************************************************)
(* lb_emit_call_internal on its own arguments                              *)
(***************************************************************************)
\* unsigned arg_count: the processed arguments, the return pointer and the
\* context pointer when they are not null
ArgCount(c) ==
    c.processed + (IF c.return_ptr THEN 1 ELSE 0) + (IF c.context_ptr THEN 1 ELSE 0)

\* GB_ASSERT(arg_count >= param_count)
ArgCountAccepted(arg_count, param_count) == arg_count >= param_count

\* The call: the assertion on the count, then LLVMBuildCall2 with arg_count
\* arguments (the argument types are taken to match the parameter types)
EmitCallInternalResult(c) ==
    IF ArgCountAccepted(ArgCount(c), c.param_count)
    THEN [pc |-> "emitted", emitted_args |-> ArgCount(c)]
    ELSE [pc |-> "fatal", emitted_args |-> 0]

\* param_count is LLVMCountParamTypes(fnp) of the callee's classified native
\* signature, is_var_arg whether that signature is variadic.
InitInternal ==
    /\ internal_call \in [param_count : 0..MaxCallParams, is_var_arg : BOOLEAN,
                          processed : 0..(MaxCallParams + MaxExtraArgs),
                          return_ptr : BOOLEAN, context_ptr : BOOLEAN]
    /\ internal_res = [pc |-> "ready"]
    /\ IdleProc
    /\ IdleBody
    /\ IdleCall
    /\ IdleVari
    /\ IdleDefer
    /\ IdleSimd
    /\ IdleBuiltin
    /\ IdleNested
    /\ IdleFix
    /\ IdleReduce
    /\ IdleRotate
    /\ IdleBuf
    /\ IdleEnd
    /\ IdleSys
    /\ IdleUtf

\* lb_emit_call_internal
EmitCallInternal ==
    /\ internal_res.pc = "ready"
    /\ internal_res' = EmitCallInternalResult(internal_call)
    /\ UNCHANGED internal_call
    /\ UNCHANGED notInternalVars

NextInternal == EmitCallInternal

(***************************************************************************)
(* Specifications                                                          *)
(***************************************************************************)
(* lb_emit_call from the return slot to the tuple fix, over the calls of   *)
(* one procedure.  A local is named by its number in the procedure, a      *)
(* call instruction by the number of the call.                             *)
(***************************************************************************)
\* lb_add_local / lb_add_local_generated: the address of the next local
AddLocal(locals) == Val("local", locals + 1)

\* The hidden pointers of a split return: one local per tuple member but
\* the last
PartialReturnPtrsOf(locals, ret_count) ==
    [j \in 1..(ret_count - 1) |-> AddLocal(locals + j - 1)]

\* tuple_fix_values: the loads of the hidden pointers found at offset in
\* processed_args, then the result of the call
FixValues(processed, offset, ret_count, result) ==
    [j \in 1..ret_count |->
        IF j < ret_count THEN Load(processed[offset + j]) ELSE result]

SetTupleFix_PtrOnly(map, result_ptr, result, tf) == MapSet(map, result_ptr, tf)

\* map_set(&p->tuple_fix_map, result_ptr.value, tf);
\* map_set(&p->tuple_fix_map, result.value, tf);
SetTupleFix(map, result_ptr, result, tf) ==
    MapSet(MapSet(map, result_ptr, tf), result, tf)

InitFix ==
    /\ tuple_fix_map = <<>>
    /\ fix_count = [locals |-> 0, calls |-> 0]
    /\ fix_site = [op |-> "none"]
    /\ IdleProc
    /\ IdleBody
    /\ IdleCall
    /\ IdleVari
    /\ IdleDefer
    /\ IdleSimd
    /\ IdleBuiltin
    /\ IdleNested
    /\ IdleInternal
    /\ IdleReduce
    /\ IdleRotate
    /\ IdleBuf
    /\ IdleEnd
    /\ IdleSys
    /\ IdleUtf

\* A call with split returns: nfixed marshalled parameters, a tuple of
\* ret_count values whose last member is returned by ret_kind.
EmitSplitCall(nfixed, ret_count, ret_kind) ==
    /\ fix_count.calls < MaxFixCalls
    /\ \E ptrs \in {PartialReturnPtrsOf(fix_count.locals, ret_count)} :
       \E processed \in {[i \in 1..nfixed |-> Val("direct", i)] \o ptrs} :
       \E locals1 \in {fix_count.locals + Len(ptrs)} :
       \E return_ptr \in {IF ret_kind = "indirect" THEN AddLocal(locals1) ELSE Null} :
       \E locals2 \in {IF ret_kind = "indirect" THEN locals1 + 1 ELSE locals1} :
       \E call_value \in {IF ret_kind = "indirect" THEN Load(return_ptr)
                          ELSE Val("call", fix_count.calls + 1)} :
       \E result_ptr \in {AddLocal(locals2)} :
       \E tf \in {FixValues(processed, nfixed, ret_count, call_value)} :
       \E result \in {Load(result_ptr)} :
           /\ tuple_fix_map' = SetTupleFix(tuple_fix_map, result_ptr, result, tf)
           /\ fix_count' = [locals |-> locals2 + 1, calls |-> fix_count.calls + 1]
           /\ fix_site' = [op |-> "split", result_ptr |-> result_ptr,
                           result |-> result, ret_count |-> ret_count,
                           ptrs |-> ptrs, call_value |-> call_value]
    /\ UNCHANGED notFixVars

\* A call without split returns: only a return by pointer adds a local.
EmitPlainCall(ret_kind) ==
    /\ fix_count.calls < MaxFixCalls
    /\ fix_count' = [locals |-> fix_count.locals + (IF ret_kind = "indirect" THEN 1 ELSE 0),
                     calls |-> fix_count.calls + 1]
    /\ fix_site' = [op |-> "plain"]
    /\ UNCHANGED tuple_fix_map
    /\ UNCHANGED notFixVars

NextFix ==
    \/ \E nfixed \in 0..1 : \E ret_count \in 2..MaxCallResults :
       \E ret_kind \in {"direct", "indirect"} :
           EmitSplitCall(nfixed, ret_count, ret_kind)
    \/ \E ret_kind \in {"none", "direct", "indirect"} : EmitPlainCall(ret_kind)


(***************************************************************************)
(* The bisect, ordered and pairs reductions of lb_build_builtin_simd_proc. *)
(* A lane holds the bag of the input lanes (0-based) combined into it, so  *)
(* the binary operation is the sum of bags.                                *)
(***************************************************************************)
ReduceBisectIds == {"simd_reduce_add_bisect", "simd_reduce_mul_bisect"}
ReduceOrderedIds == {"simd_reduce_add_ordered", "simd_reduce_mul_ordered"}
ReducePairsIds == {"simd_reduce_add_pairs", "simd_reduce_mul_pairs"}

\* An element of indices the loops did not write
Uninitialized == -1

\* indices of the bisect reduction: indices[i] = i
BisectIndices(num_elems) == [k \in 1..num_elems |-> k - 1]

\* indices of the pairs reduction: indices[i] = 2*i and
\* indices[i + num_elems/2] = 2*i + 1 for i < num_elems/2
PairsIndices(num_elems) ==
    [k \in 1..num_elems |->
        IF k <= num_elems \div 2 THEN 2 * (k - 1)
        ELSE IF k <= 2 * (num_elems \div 2) THEN 2 * (k - 1 - num_elems \div 2) + 1
        ELSE Uninitialized]

ReduceIndices(id, num_elems) ==
    IF id \in ReduceBisectIds THEN BisectIndices(num_elems) ELSE PairsIndices(num_elems)

\* LLVMConstVector(&indices[from], n)
ConstVector(indices, from, n) == [k \in 1..n |-> indices[from + k]]

\* LLVMBuildShuffleVector(a, b, mask): lane k is lane mask[k] of a
\* followed by b
ShuffleVector(a, b, mask) ==
    [k \in 1..Len(mask) |->
        IF mask[k] < Len(a) THEN a[mask[k] + 1] ELSE b[mask[k] - Len(a) + 1]]

\* LLVMBuildBinOp on two vectors, lane by lane
BinOp(left, right) == [k \in 1..Len(left) |-> left[k] (+) right[k]]

\* &indices[...] of right_indices
RightStart(id, num_elems, num_remaining) ==
    IF id \in ReduceBisectIds THEN num_remaining ELSE num_elems \div 2

\* The values LLVMBuildExtractElement(remaining, indices[0]) can give: the
\* lane, or no lane of the input when indices[0] was never written
ExtractFirst(remaining, indices) ==
    IF indices[1] = Uninitialized THEN {remaining[1], EmptyBag}
    ELSE {remaining[indices[1] + 1]}

\* The lane counts of a #simd vector: the powers of two
ReduceLaneCounts == {2^k : k \in 0..MaxLog2Lanes}

InitReduce ==
    /\ reduce_call \in [id : ReduceBisectIds \cup ReduceOrderedIds \cup ReducePairsIds,
                        is_float : BOOLEAN, num_elems : ReduceLaneCounts]
    /\ reduce_loop = [remaining |-> [k \in 1..reduce_call.num_elems |-> SetToBag({k - 1})],
                      num_remaining |-> reduce_call.num_elems,
                      left |-> <<>>, right |-> <<>>]
    /\ reduce_res = [pc |-> "ready"]
    /\ IdleProc
    /\ IdleBody
    /\ IdleCall
    /\ IdleVari
    /\ IdleDefer
    /\ IdleSimd
    /\ IdleBuiltin
    /\ IdleNested
    /\ IdleInternal
    /\ IdleFix
    /\ IdleRotate
    /\ IdleBuf
    /\ IdleEnd
    /\ IdleSys
    /\ IdleUtf

\* One iteration of while (num_remaining > 1)
ReduceStep ==
    /\ reduce_res.pc = "ready"
    /\ reduce_call.id \in ReduceBisectIds \cup ReducePairsIds
    /\ reduce_loop.num_remaining > 1
    /\ \E indices \in {ReduceIndices(reduce_call.id, reduce_call.num_elems)} :
       \E num_remaining \in {reduce_loop.num_remaining \div 2} :
       \E left_indices \in {ConstVector(indices, 0, num_remaining)} :
       \E right_indices \in {ConstVector(indices,
                                RightStart(reduce_call.id, reduce_call.num_elems,
                                           num_remaining), num_remaining)} :
           reduce_loop' =
               [remaining |-> BinOp(ShuffleVector(reduce_loop.remaining,
                                                  reduce_loop.remaining, left_indices),
                                    ShuffleVector(reduce_loop.remaining,
                                                  reduce_loop.remaining, right_indices)),
                num_remaining |-> num_remaining,
                left |-> left_indices, right |-> right_indices]
    /\ UNCHANGED <<reduce_call, reduce_res>>
    /\ UNCHANGED notReduceVars

\* res.value = LLVMBuildExtractElement(p->builder, remaining, indices[0], "")
ReduceExtract ==
    /\ reduce_res.pc = "ready"
    /\ reduce_call.id \in ReduceBisectIds \cup ReducePairsIds
    /\ reduce_loop.num_remaining <= 1
    /\ \E v \in ExtractFirst(reduce_loop.remaining,
                             ReduceIndices(reduce_call.id, reduce_call.num_elems)) :
           reduce_res' = [pc |-> "returned", value |-> v, intrinsic |-> "none"]
    /\ UNCHANGED <<reduce_call, reduce_loop>>
    /\ UNCHANGED notReduceVars

\* The ordered reductions: one call of llvm.vector.reduce.*
ReduceOrdered ==
    /\ reduce_res.pc = "ready"
    /\ reduce_call.id \in ReduceOrderedIds
    /\ reduce_res' =
           [pc |-> "returned",
            value |-> SetToBag(0..(reduce_call.num_elems - 1)),
            intrinsic |->
                IF reduce_call.id = "simd_reduce_add_ordered"
                THEN (IF reduce_call.is_float THEN "llvm.vector.reduce.fadd"
                      ELSE "llvm.vector.reduce.add")
                ELSE (IF reduce_call.is_float THEN "llvm.vector.reduce.fmul"
                      ELSE "llvm.vector.reduce.mul")]
    /\ UNCHANGED <<reduce_call, reduce_loop>>
    /\ UNCHANGED notReduceVars

NextReduce ==
    \/ ReduceStep
    \/ ReduceExtract
    \/ ReduceOrdered


(***************************************************************************)
(* simd_lanes_rotate_left and simd_lanes_rotate_right, applied one after   *)
(* the other to one vector.  A lane holds the number (0-based) of the lane *)
(* of the first vector it came from.                                       *)
(***************************************************************************)
RotateIds == {"simd_lanes_rotate_left", "simd_lanes_rotate_right"}

\* big_int_rem: the remainder of a by the positive n.  The sign convention
\* is the BigInt library's: "truncated" has the sign of a, "floored" is
\* never negative.
BigIntRem(a, n, convention) ==
    IF convention = "floored" \/ a >= 0 THEN a % n ELSE -((-a) % n)

RotateLeftAmount_NoNeg(id, k, count, convention) == BigIntRem(k, count, convention)

\* i64 left: the constant, negated for simd_lanes_rotate_right, reduced by
\* the lane count
RotateLeftAmount(id, k, count, convention) ==
    BigIntRem(IF id = "simd_lanes_rotate_right" THEN -k ELSE k, count, convention)

\* cast(u64)x, of which only the low 16 bits reach the mask count-1
CastU64(x) == x % 65536

\* u64 idx = cast(u64)(i+left) & cast(u64)(count-1);
RotateMask(left, count) ==
    [j \in 1..count |-> BitAnd(CastU64((j - 1) + left), CastU64(count - 1))]

\* The constants tried for a vector of count lanes: negative ones and ones
\* of magnitude above the lane count included
RotateConstants(count) == (-(2 * count + 1))..(2 * count + 1)

InitRotate ==
    /\ \E count \in {2^e : e \in 0..MaxLog2Lanes} :
       \E k \in RotateConstants(count) :
       \E convention \in {"truncated", "floored"} :
           /\ rotate_call = [count |-> count, k |-> k, convention |-> convention]
           /\ rotate_vec = [j \in 1..count |-> j - 1]
    /\ rotate_done = <<>>
    /\ IdleProc
    /\ IdleBody
    /\ IdleCall
    /\ IdleVari
    /\ IdleDefer
    /\ IdleSimd
    /\ IdleBuiltin
    /\ IdleNested
    /\ IdleInternal
    /\ IdleFix
    /\ IdleReduce
    /\ IdleBuf
    /\ IdleEnd
    /\ IdleSys
    /\ IdleUtf

\* case BuiltinProc_simd_lanes_rotate_left / simd_lanes_rotate_right on the
\* vector, with the constant of the call
LanesRotate(id) ==
    /\ Len(rotate_done) < MaxRotations
    /\ \E left \in {RotateLeftAmount(id, rotate_call.k, rotate_call.count,
                                     rotate_call.convention)} :
       \E mask \in {RotateMask(left, rotate_call.count)} :
           rotate_vec' = ShuffleVector(rotate_vec, rotate_vec, mask)
    /\ rotate_done' = Append(rotate_done, id)
    /\ UNCHANGED rotate_call
    /\ UNCHANGED notRotateVars

NextRotate == \E id \in RotateIds : LanesRotate(id)


(***************************************************************************)
(* lb_build_call_expr_internal on call expressions whose named argument    *)
(* may itself be a variadic call of the same procedure: the contents of    *)
(* the variadic buffer when each native call is issued.                    *)
(*                                                                         *)
(* The callee is proc(args: ..T, opt := default).  Variadic argument i of  *)
(* call expression e is the value [outer_arg or inner_arg, 10*e + i].      *)
(***************************************************************************)
\* What is passed for the parameter behind the variadic one: nothing (the
\* default is used), an expression without a call, or a variadic call
NamedArgKinds == {"default", "expr", "call"}

\* var_args of a call: the values of its variadic expressions
VarArgs(role, expr, slice_len) == [i \in 1..slice_len |-> Val(role, 10 * expr + i)]

\* for (i = 0; i < var_args.count; i++) lb_emit_store(array_epi(base, i), var_args[i]):
\* the memory afterwards, the elements behind var_args.count kept
StoreVarArgs(mem, base, var_args) ==
    [b \in DOMAIN mem \cup {base} |->
        IF b # base THEN mem[b]
        ELSE IF base \notin DOMAIN mem THEN var_args
        ELSE [i \in 1..(IF Len(mem[b]) > Len(var_args) THEN Len(mem[b]) ELSE Len(var_args)) |->
                IF i <= Len(var_args) THEN var_args[i] ELSE mem[b][i]]]

\* What the callee reads through the slice (base, slice_len) at the call
SliceContents(mem, base, slice_len) == [i \in 1..slice_len |-> mem[base][i]]

\* The native call of one variadic call as issued: its own variadic
\* arguments and what the slice holds at that moment
IssuedCall(role, var_args, mem, base) ==
    [role |-> role, args |-> var_args, base |-> base,
     seen |-> SliceContents(mem, base, Len(var_args))]

\* The positional loop of one call up to variadic_args = lb_addr_load(slice):
\* the procedure and the memory afterwards, and the base of the slice
PackAndStore(proc, decl, mem, slice_type, var_args) ==
    LET packed == PackVariadic(proc, decl, slice_type, Len(var_args))
    IN  [proc |-> packed.proc, base |-> packed.base,
         mem |-> StoreVarArgs(mem, packed.base, var_args)]

InitBuf ==
    /\ buf_decl \in {[has_decl |-> h, types |-> ts, llvm13 |-> l] :
                        h \in BOOLEAN, ts \in SUBSET SliceElems, l \in BOOLEAN}
    /\ ~buf_decl.has_decl => buf_decl.types = {}
    /\ buf_proc = [reuses |-> <<>>, base |-> Null, locals |-> 0,
                   base_allocs |-> <<>>, nexprs |-> 0]
    /\ buf_mem = <<>>
    /\ buf_issued = <<>>
    /\ IdleProc
    /\ IdleBody
    /\ IdleCall
    /\ IdleVari
    /\ IdleDefer
    /\ IdleSimd
    /\ IdleBuiltin
    /\ IdleNested
    /\ IdleInternal
    /\ IdleFix
    /\ IdleReduce
    /\ IdleRotate
    /\ IdleEnd
    /\ IdleSys
    /\ IdleUtf

\* One call expression f(a1, .., an, opt = x) lowered up to its native call:
\* the positional loop packs the variadic arguments, the loop over the
\* named arguments builds x, which for a call lowers and issues the inner
\* variadic call g(b1, .., bm), then lb_emit_call issues the outer call.
BuildVariadicCallExpr(slice_type, slice_len, named, inner_type, inner_len) ==
    /\ buf_proc.nexprs < MaxBufExprs
    /\ \E expr \in {buf_proc.nexprs + 1} :
       \E outer_args \in {VarArgs("outer_arg", expr, slice_len)} :
       \E outer \in {PackAndStore(buf_proc, buf_decl, buf_mem, slice_type, outer_args)} :
       \E inner_args \in {VarArgs("inner_arg", expr, inner_len)} :
       \E inner \in {IF named = "call"
                     THEN PackAndStore(outer.proc, buf_decl, outer.mem, inner_type, inner_args)
                     ELSE [proc |-> outer.proc, base |-> Null, mem |-> outer.mem]} :
           /\ buf_proc' = [inner.proc EXCEPT !.nexprs = expr]
           /\ buf_mem' = inner.mem
           /\ buf_issued' =
                (IF named = "call"
                 THEN <<IssuedCall("inner", inner_args, inner.mem, inner.base)>>
                 ELSE <<>>)
                \o <<IssuedCall("outer", outer_args, inner.mem, outer.base)>>
    /\ UNCHANGED buf_decl
    /\ UNCHANGED notBufVars

NextBuf ==
    \E slice_type \in SliceElems : \E slice_len \in 1..MaxVariadicArgs :
    \E named \in NamedArgKinds :
    \E inner_type \in (IF named = "call" THEN SliceElems ELSE {slice_type}) :
    \E inner_len \in (IF named = "call" THEN 1..MaxVariadicArgs ELSE {0}) :
        BuildVariadicCallExpr(slice_type, slice_len, named, inner_type, inner_len)


(***************************************************************************)
(* lb_end_procedure_body on the basic blocks of one function.  Block 1 is  *)
(* p->decl_block, block 2 p->entry_block; an instruction is [op, id] with  *)
(* id the target block of a "br".                                          *)
(***************************************************************************)
DeclBlock == 1
EntryBlock == 2

\* LLVMPositionBuilderAtEnd(p->builder, p->decl_block->block);
\* LLVMBuildBr(p->builder, p->entry_block->block);
BranchToEntry(blocks) ==
    [blocks EXCEPT ![DeclBlock] = Append(@, Instr("br", EntryBlock))]

TerminateBlock_Always(b) == Append(b, Instr("unreachable", 0))

\* The body of the loop over the blocks of the function: a block that is
\* empty or does not end in a terminator gets an "unreachable"
TerminateBlock(b) ==
    IF ~BlockTerminated(b) THEN Append(b, Instr("unreachable", 0)) ELSE b

\* The blocks of the function after lb_end_procedure_body
EndBlocks(blocks, curr, stmts, result_count) ==
    LET branched == BranchToEntry(blocks)
        returned == [branched EXCEPT ![curr] =
                        IF result_count = 0 /\ ~BlockTerminated(@)
                        THEN Append(@ \o EmitDeferStmtsReturn(stmts), Instr("ret", 0))
                        ELSE @]
    IN  [i \in 1..Len(returned) |-> TerminateBlock(returned[i])]

\* What a block of the body holds when the body ends: nothing, instructions
\* without a terminator, or instructions and a terminator
BodyBlockShapes ==
    {<<>>, <<Instr("call", 0)>>, <<Instr("call", 0), Instr("ret", 0)>>,
     <<Instr("br", EntryBlock)>>, <<Instr("call", 0), Instr("unreachable", 0)>>}

\* The declarations block holds allocas only
DeclBlockShapes == {<<>>, <<Instr("alloca", 0)>>}

InitEnd ==
    /\ \E n \in 1..MaxBodyBlocks :
       \E decl \in DeclBlockShapes : \E body \in [1..n -> BodyBlockShapes] :
           end_blocks = <<decl>> \o body
    /\ \E curr \in 2..Len(end_blocks) : \E result_count \in 0..1 :
       \E pending \in 0..MaxDeferCalls :
           end_proc = [curr_block |-> curr, result_count |-> result_count,
                       defer_stmts |-> [i \in 1..pending |-> DeferEntry(i, 0, <<>>)]]
    /\ end_pc = "body"
    /\ IdleProc
    /\ IdleBody
    /\ IdleCall
    /\ IdleVari
    /\ IdleDefer
    /\ IdleSimd
    /\ IdleBuiltin
    /\ IdleNested
    /\ IdleInternal
    /\ IdleFix
    /\ IdleReduce
    /\ IdleRotate
    /\ IdleBuf
    /\ IdleSys
    /\ IdleUtf

\* lb_end_procedure_body
EndProcedureBodyBlocks ==
    /\ end_pc = "body"
    /\ end_blocks' = EndBlocks(end_blocks, end_proc.curr_block, end_proc.defer_stmts,
                               end_proc.result_count)
    /\ end_pc' = "ended"
    /\ UNCHANGED end_proc
    /\ UNCHANGED notEndVars

NextEnd == EndProcedureBodyBlocks


(***************************************************************************)
(* BuiltinProc_syscall and BuiltinProc_syscall_bsd.  The constraint string *)
(* is kept as the sequence of its comma-separated items; an item is        *)
(* [kind, reg] with kind "out" for "={reg}", "in" for "{reg}" and          *)
(* "clobber" for "~{reg}".                                                 *)
(***************************************************************************)
TargetOss == {"linux", "darwin", "freebsd", "netbsd", "openbsd"}

Constraint(kind, reg) == [kind |-> kind, reg |-> reg]

\* gb_string_make(heap_allocator(), "={a}") / "={a},={b}"
Outputs(regs) == [i \in 1..Len(regs) |-> Constraint("out", regs[i])]

\* gb_string_appendc(constraints, ",~{a},~{b}")
Clobbers(regs) == [i \in 1..Len(regs) |-> Constraint("clobber", regs[i])]

\* for (unsigned i = 0; i < n; i++) { ",{" regs[i] "}" }
InputRegs(regs, n) == [i \in 1..n |-> Constraint("in", regs[i])]

Min(a, b) == IF a < b THEN a ELSE b

\* The static regs[] table of BuiltinProc_syscall
SyscallRegs(arch, os) ==
    CASE arch = "riscv64" -> <<"a7", "a0", "a1", "a2", "a3", "a4", "a5", "a6">>
      [] arch = "amd64"   -> <<"rax", "rdi", "rsi", "rdx", "r10", "r8", "r9">>
      [] arch = "i386"    -> <<"eax", "ebx", "ecx", "edx", "esi", "edi", "ebp">>
      [] arch = "arm64" /\ os = "darwin" ->
                             <<"x16", "x0", "x1", "x2", "x3", "x4", "x5">>
      [] arch = "arm64" /\ os # "darwin" ->
                             <<"x8", "x0", "x1", "x2", "x3", "x4", "x5">>
      [] arch = "arm32"   -> <<"r7", "r0", "r1", "r2", "r3", "r4", "r5", "r6">>

\* The bound of the loop that appends the input registers
SyscallInputCount(arch, arg_count) ==
    IF arch = "i386" THEN Min(arg_count, 6) ELSE arg_count

\* The constraints of BuiltinProc_syscall
SyscallConstraints(arch, os, arg_count) ==
    CASE arch = "riscv64" ->
            Outputs(<<"a0">>)
            \o InputRegs(SyscallRegs(arch, os), SyscallInputCount(arch, arg_count))
            \o Clobbers(<<"memory">>)
      [] arch = "amd64" ->
            Outputs(<<"rax">>)
            \o InputRegs(SyscallRegs(arch, os), SyscallInputCount(arch, arg_count))
            \o Clobbers(<<"rcx", "r11", "memory">>)
      [] arch = "i386" ->
            Outputs(<<"eax">>)
            \o InputRegs(SyscallRegs(arch, os), SyscallInputCount(arch, arg_count))
            \o Clobbers(<<"memory">>)
      [] arch = "arm64" ->
            Outputs(<<"x0">>)
            \o InputRegs(SyscallRegs(arch, os), SyscallInputCount(arch, arg_count))
            \o Clobbers(<<"memory">>)
      [] arch = "arm32" ->
            Outputs(<<"r0">>)
            \o InputRegs(SyscallRegs(arch, os), SyscallInputCount(arch, arg_count))
            \o Clobbers(<<"memory">>)

\* The regs table of BuiltinProc_syscall_bsd
SyscallBsdRegs(arch, os) ==
    CASE arch = "amd64" -> <<"rax", "rdi", "rsi", "rdx", "r10", "r8", "r9">>
      [] arch = "arm64" /\ os = "netbsd" ->
                           <<"x17", "x0", "x1", "x2", "x3", "x4", "x5">>
      [] arch = "arm64" /\ os # "netbsd" ->
                           <<"x8", "x0", "x1", "x2", "x3", "x4", "x5">>

\* The constraints of BuiltinProc_syscall_bsd
SyscallBsdConstraints(arch, os, arg_count) ==
    CASE arch = "amd64" ->
            Outputs(<<"rax", "cl">>)
            \o InputRegs(SyscallBsdRegs(arch, os), arg_count)
            \o (IF os = "freebsd" THEN Clobbers(<<"r8", "r9", "r10">>) ELSE <<>>)
            \o Clobbers(<<"rdx", "r11", "cc", "memory">>)
      [] arch = "arm64" /\ os = "netbsd" ->
            Outputs(<<"x0", "x17">>)
            \o InputRegs(SyscallBsdRegs(arch, os), arg_count)
            \o Clobbers(<<"cc", "memory">>)
      [] arch = "arm64" /\ os # "netbsd" ->
            Outputs(<<"x0", "x8">>)
            \o Clobbers(<<"x1">>)
            \o InputRegs(SyscallBsdRegs(arch, os), arg_count)
            \o Clobbers(<<"cc", "memory">>)

SyscallArchs == {"riscv64", "amd64", "i386", "arm64", "arm32"}
SyscallBsdArchs == {"amd64", "arm64"}

InitSys ==
    /\ \E builtin \in {"syscall", "syscall_bsd"} :
       \E arch \in TargetArchs : \E os \in TargetOss :
       \E arg_count \in 0..MaxSyscallArgs :
           sys_call = [builtin |-> builtin, arch |-> arch, os |-> os,
                       arg_count |-> arg_count]
    /\ sys_asm = [constraints |-> <<>>, args |-> 0]
    /\ sys_pc = "start"
    /\ IdleProc
    /\ IdleBody
    /\ IdleCall
    /\ IdleVari
    /\ IdleDefer
    /\ IdleSimd
    /\ IdleBuiltin
    /\ IdleNested
    /\ IdleInternal
    /\ IdleFix
    /\ IdleReduce
    /\ IdleRotate
    /\ IdleBuf
    /\ IdleEnd
    /\ IdleUtf

\* case BuiltinProc_syscall: the default case panics, GB_ASSERT(arg_count <= 7)
\* aborts, otherwise LLVMBuildCall2 passes all arg_count arguments
BuildSyscall ==
    /\ sys_pc = "start"
    /\ sys_call.builtin = "syscall"
    /\ IF sys_call.arch \notin SyscallArchs \/ sys_call.arg_count > SyscallArgLimit
       THEN /\ sys_pc' = "fatal"
            /\ UNCHANGED sys_asm
       ELSE /\ sys_asm' = [constraints |-> SyscallConstraints(sys_call.arch, sys_call.os,
                                                              sys_call.arg_count),
                           args |-> sys_call.arg_count]
            /\ sys_pc' = "built"
    /\ UNCHANGED sys_call
    /\ UNCHANGED notSysVars

\* case BuiltinProc_syscall_bsd
BuildSyscallBsd ==
    /\ sys_pc = "start"
    /\ sys_call.builtin = "syscall_bsd"
    /\ IF sys_call.arch \notin SyscallBsdArchs \/ sys_call.arg_count > SyscallArgLimit
       THEN /\ sys_pc' = "fatal"
            /\ UNCHANGED sys_asm
       ELSE /\ sys_asm' = [constraints |-> SyscallBsdConstraints(sys_call.arch, sys_call.os,
                                                                 sys_call.arg_count),
                           args |-> sys_call.arg_count]
            /\ sys_pc' = "built"
    /\ UNCHANGED sys_call
    /\ UNCHANGED notSysVars

NextSys == BuildSyscall \/ BuildSyscallBsd


(***************************************************************************)
(* BuiltinProc_constant_utf16_cstring.  The string constant is kept as the *)
(* sequence of its encoded runes, each [r, w]: the rune gb_utf8_decode     *)
(* yields there and the number of bytes it consumes.                       *)
(*   0xD800 = 55296, 0xDC00 = 56320, 0xE000 = 57344, 0xFFFD = 65533,       *)
(*   0x10000 = 65536, 0x10FFFF = 1114111, 0x3FF = 1023                     *)
(***************************************************************************)
\* cast(u16)x
CastU16(x) == x % 65536

\* x & 0x3ff, for x >= 0
And3FF(x) == x % 1024

\* x >> 10, for x >= 0
Shr10(x) == x \div 1024

EncodeSurrogatePair_NoOffset(r) ==
    IF r < 65536 \/ r > 1114111
    THEN <<65533, 65533>>
    ELSE <<CastU16(55296 + And3FF(Shr10(r))), CastU16(56320 + And3FF(r))>>

\* The lambda encode_surrogate_pair: <<r1, r2>>
EncodeSurrogatePair(r) ==
    IF r < 65536 \/ r > 1114111
    THEN <<65533, 65533>>
    ELSE LET r0 == r - 65536
         IN  <<CastU16(55296 + And3FF(Shr10(r0))), CastU16(56320 + And3FF(r0))>>

\* The units one iteration of the loop writes for the rune r
RuneUnits(r) ==
    IF (0 <= r /\ r < 55296) \/ (57344 <= r /\ r < 65536)
    THEN <<CastU16(r)>>
    ELSE IF 65536 <= r /\ r <= 1114111
    THEN EncodeSurrogatePair(r)
    ELSE <<65533>>

\* The number of bytes of the UTF-8 form of r
Utf8Width(r) ==
    IF r < 128 THEN 1 ELSE IF r < 2048 THEN 2 ELSE IF r < 65536 THEN 3 ELSE 4

\* What gb_utf8_decode can yield at one place of the text: a rune of one to
\* four bytes, or 0xFFFD and a width of one byte for a byte that starts no rune
DecodedRunes ==
    {[r |-> r, w |-> Utf8Width(r)] :
        r \in {0, 65, 127, 128, 2047, 2048, 55295, 55296, 57343, 57344, 65533, 65535,
               65536, 66560, 1114111, 1114112, 2097151}}
    \cup {[r |-> 65533, w |-> 1]}

\* isize w = gb_utf8_decode(value.text, value.len, &r)
Utf8Decode(text) == Head(text)

\* value.len: the bytes of the text
RECURSIVE ByteLen(_)
ByteLen(text) == IF text = <<>> THEN 0 ELSE Head(text).w + ByteLen(Tail(text))

\* while (value.len > 0) { ... }: the buffer after the loop
RECURSIVE EncodeLoop(_, _)
EncodeLoop(text, buffer) ==
    IF ByteLen(text) > 0
    THEN EncodeLoop(Tail(text), buffer \o RuneUnits(Utf8Decode(text).r))
    ELSE buffer

\* The units of the array constant: the loop, then buffer[n++] = 0
Utf16Array(text) == Append(EncodeLoop(text, <<>>), 0)

RECURSIVE TextsUpTo(_)
TextsUpTo(n) ==
    IF n = 0 THEN {<<>>}
    ELSE LET shorter == TextsUpTo(n - 1)
         IN  shorter \cup {Append(t, d) : t \in {u \in shorter : Len(u) = n - 1},
                                          d \in DecodedRunes}

InitUtf ==
    /\ utf_value \in TextsUpTo(MaxRunes)
    /\ utf_array = <<>>
    /\ utf_max_len = 0
    /\ utf_pc = "start"
    /\ IdleProc
    /\ IdleBody
    /\ IdleCall
    /\ IdleVari
    /\ IdleDefer
    /\ IdleSimd
    /\ IdleBuiltin
    /\ IdleNested
    /\ IdleInternal
    /\ IdleFix
    /\ IdleReduce
    /\ IdleRotate
    /\ IdleBuf
    /\ IdleEnd
    /\ IdleSys

\* case BuiltinProc_constant_utf16_cstring
ConstantUtf16Cstring ==
    /\ utf_pc = "start"
    /\ utf_max_len' = ByteLen(utf_value) * 2 + 1
    /\ utf_array' = Utf16Array(utf_value)
    /\ utf_pc' = "built"
    /\ UNCHANGED utf_value
    /\ UNCHANGED notUtfVars

NextUtf == ConstantUtf16Cstring


(***************************************************************************)
SpecProc == InitProc /\ [][NextProc]_vars

SpecBody == InitBody /\ [][NextBody]_vars

SpecCall == InitCall /\ [][NextCall]_vars

SpecVari == InitVari /\ [][NextVari]_vars

SpecDefer == InitDefer /\ [][NextDefer]_vars

SpecSimd == InitSimd /\ [][NextSimd]_vars

SpecBuiltin == InitBuiltin /\ [][NextBuiltin]_vars

SpecNested == InitNested /\ [][NextNested]_vars

SpecInternal == InitInternal /\ [][NextInternal]_vars

SpecFix == InitFix /\ [][NextFix]_vars

SpecReduce == InitReduce /\ [][NextReduce]_vars

SpecRotate == InitRotate /\ [][NextRotate]_vars

SpecBuf == InitBuf /\ [][NextBuf]_vars

SpecEnd == InitEnd /\ [][NextEnd]_vars

SpecSys == InitSys /\ [][NextSys]_vars

SpecUtf == InitUtf /\ [][NextUtf]_vars

(***************************************************************************)
(* Claims about lb_create_procedure                                        *)
(***************************************************************************)
FunctionsNamed(n) == {f \in 1..Len(functions) : functions[f] = n}
ProcsNamed(n) == {p \in 1..Len(procs) : procs[p].name = n}

AtMostOncePerLinkName ==
    \A n \in LinkNames :
        /\ Cardinality(FunctionsNamed(n)) <= 1
        /\ Cardinality(ProcsNamed(n)) <= 1

\* The step of thread t out of the lookup when the link name is in m->members.
LookupHitStep(t) ==
    /\ pc[t] = "lookup"
    /\ pc'[t] = "idle"
    /\ cur[t].link_name \in DOMAIN members

\* C1: for calls made one after another on one module, every link name has at
\* most one native function and at most one procedure descriptor, and a call
\* whose link name is already in m->members returns the descriptor registered
\* under that name and adds no function, member entry or procedure entry.
C1_IdempotentPerLinkName ==
    /\ [](~concurrent => AtMostOncePerLinkName)
    /\ [][\A t \in Threads :
            (~concurrent /\ LookupHitStep(t)) =>
                /\ ret'[t] = procedures[cur[t].link_name]
                /\ procs[ret'[t]].name = cur[t].link_name
                /\ functions' = functions
                /\ procs' = procs
                /\ members' = members
                /\ procedures' = procedures]_vars

\* Serialised calls: the second call returned the descriptor that the first
\* call allocated, and nothing else was allocated.
C1_Witness ==
    /\ ~concurrent
    /\ \A t \in Threads : pc[t] = "idle" /\ ret[t] = 1
    /\ Len(procs) = 1
    /\ Len(functions) = 1
    /\ calls >= 2

\* C2: when the two threads run lb_create_procedure concurrently, calls for
\* the same link name end with the same single descriptor and exactly one
\* native function exists for that name, under every interleaving.
C2_ConcurrentCallsConverge ==
    concurrent =>
        /\ \A n \in LinkNames : Cardinality(FunctionsNamed(n)) <= 1
        /\ \A t, u \in Threads :
              (/\ pc[t] = "idle" /\ pc[u] = "idle"
               /\ ret[t] > 0 /\ ret[u] > 0
               /\ procs[ret[t]].name = procs[ret[u]].name) => ret[t] = ret[u]

(***************************************************************************)
(* Claims about lb_begin_procedure_body                                    *)
(***************************************************************************)
BodyEntered == body_pc \in {"body", "called"}

\* Addresses that entities of the procedure are bound to, with multiplicity
BoundLocals ==
    [i \in 1..(Len(param_bind) + Len(result_bind)) |->
        IF i <= Len(param_bind) THEN param_bind[i].ptr
        ELSE result_bind[i - Len(param_bind)]]

\* v is a local that exactly one entity is bound to
FreshLocal(v) ==
    /\ v.k = "local"
    /\ v.n \in 1..body_locals
    /\ Cardinality({i \in DOMAIN BoundLocals : BoundLocals[i] = v}) = 1

\* C4: a named Indirect parameter is copied into a fresh local, and the
\* entity bound to that copy, exactly when the convention is Odin-style and
\* (the type size is at most 16 bytes or the by-value override is set);
\* otherwise the entity is bound to the incoming pointer itself.
C4_CalleeCopyOfIndirect ==
    BodyEntered =>
        \A i \in 1..Len(body_pt.params) :
            LET e == body_pt.params[i]
                b == param_bind[i]
                incoming == Val("param", b.native)
                copy == IsOdinCC(body_pt.cc)
                        /\ (e.sz <= 16 \/ body_pt.internal_by_value)
            IN  (e.kind = "indirect" /\ e.named) =>
                    /\ b.bound /\ b.reads
                    /\ copy => (b.copied /\ FreshLocal(b.ptr) /\ b.ptr # incoming)
                    /\ ~copy => (~b.copied /\ b.ptr = incoming)

\* An Odin-style procedure without the override whose 16-byte parameter was
\* copied and whose 17-byte parameter was not.
C4_Witness ==
    /\ body_pc = "body"
    /\ body_pt.cc = "odin"
    /\ ~body_pt.internal_by_value
    /\ body_pt.params = <<Param("indirect", TRUE, 16), Param("indirect", TRUE, 17)>>
    /\ param_bind[1].copied /\ param_bind[1].ptr.k = "local"
    /\ ~param_bind[2].copied /\ param_bind[2].ptr.k = "param"

\* Number of Direct or Indirect parameters before parameter i
NonIgnoredBefore(t, i) ==
    Cardinality({j \in 1..(i - 1) : t.params[j].kind \in {"direct", "indirect"}})

\* C5: an Ignore parameter consumes no native parameter: the body reads each
\* Direct or Indirect parameter from the native index at which lb_emit_call
\* placed its argument, which is the hidden return pointer, if any, plus the
\* number of non-ignored parameters before it.
C5_BodyReadsWhereCallPlaced ==
    body_pc = "called" =>
        \A i \in 1..Len(body_pt.params) :
            LET e == body_pt.params[i]
                b == param_bind[i]
                marshalled == IF e.kind = "direct" THEN Val("direct", i)
                              ELSE Val("ptr", i)
            IN  (e.kind \in {"direct", "indirect"} /\ e.named) =>
                    /\ b.reads
                    /\ b.native = ParamOffset(body_pt) + NonIgnoredBefore(body_pt, i)
                    /\ b.native + 1 \in 1..Len(self_call)
                    /\ self_call[b.native + 1] = marshalled

\* C6: when the procedure uses a defer statement, or its defer use was never
\* checked, every named result is bound to a fresh local of its own, never to
\* the return pointer or a hidden result parameter, whatever the return
\* classification.
C6_NamedResultsFreshUnderDefer ==
    (BodyEntered /\ body_pt.has_named_results
       /\ body_pt.defer \in {"used", "unchecked"}) =>
        /\ Len(result_bind) = body_pt.result_count
        /\ \A i \in 1..Len(result_bind) : FreshLocal(result_bind[i])

\* A procedure that uses defer, with split returns through a return pointer
\* and two named results: both fast-path sources exist and neither is taken.
C6_Witness ==
    /\ body_pc = "body"
    /\ body_pt.defer = "used"
    /\ body_pt.has_named_results
    /\ body_pt.split /\ body_pt.ret_kind = "indirect" /\ body_pt.result_count = 2
    /\ Len(result_bind) = 2
    /\ result_bind[1].k = "local" /\ result_bind[2].k = "local"
    /\ result_bind[1] # result_bind[2]

HiddenTrailingPtr(j) ==
    LET ctx == IF HasContext(call_pt.cc) THEN 1 ELSE 0
        first == Len(native_call) - ctx - (call_pt.result_count - 1) + 1
    IN  native_call[first + j]

\* C3: for a call with split returns to a tuple of n values, reconstructed
\* component j (j < n-1) is the value loaded from the j-th hidden trailing
\* pointer passed in that call, and component n-1 is the value the call
\* itself returned, for every count of fixed and of Ignore parameters.
C3_SplitReturnRoundTrip ==
    (call_pc = "emitted" /\ call_pt.split) =>
        LET n == call_pt.result_count IN
        /\ Len(tuple_fix) = n
        /\ \A j \in 0..(n - 2) :
              /\ HiddenTrailingPtr(j) = Val("partial_ret", j)
              /\ tuple_fix[j + 1] = Load(HiddenTrailingPtr(j))
        /\ tuple_fix[n] = call_result
        /\ call_result = IF call_pt.ret_kind = "indirect"
                         THEN Val("load_return_ptr", 0) ELSE Val("call", 0)

\* A split-return call to a tuple of three with an Ignore parameter before a
\* Direct one.
C3_Witness ==
    /\ call_pc = "emitted"
    /\ call_pt.split /\ call_pt.result_count = 3
    /\ call_pt.params = <<Param("ignore", TRUE, 0), Param("direct", TRUE, 8)>>
    /\ tuple_fix = <<Val("load_partial_ret", 0), Val("load_partial_ret", 1),
                     Val("call", 0)>>

\* The arity rule as the claim states it
ArityViolation ==
    \/ ~call_pt.c_vararg /\ Len(call_args) # ParamCount(call_pt)
    \/ call_pt.c_vararg /\ Len(call_args) < ParamCount(call_pt) - 1

\* C7: lb_emit_call aborts, before any native call is emitted, when a
\* non-C-variadic callee gets a number of arguments different from its
\* parameter count or a C-variadic callee gets fewer than its fixed prefix;
\* with any other argument count the call is emitted.
C7_ArityChecked ==
    call_pc \in {"emitted", "fatal"} =>
        /\ ArityViolation => (call_pc = "fatal" /\ native_call = <<>>)
        /\ ~ArityViolation => (call_pc = "emitted"
                               /\ Len(native_call) >= NativeParamCount(call_pt))

\* A C-variadic call one argument short of its fixed prefix was refused.
C7_Witness ==
    /\ call_pc = "fatal"
    /\ call_pt.c_vararg
    /\ Len(call_pt.params) = 2
    /\ Len(call_args) = 1
    /\ native_call = <<>>

\* The marshalled fixed-prefix arguments: one per Direct or Indirect
\* parameter, in parameter order.
ExpectedFixed ==
    LET idx == SelectSeq([i \in 1..Len(call_pt.params) |-> i],
                         LAMBDA i : call_pt.params[i].kind \in {"direct", "indirect"})
    IN  [k \in 1..Len(idx) |->
            IF call_pt.params[idx[k]].kind = "direct"
            THEN Val("direct", idx[k]) ELSE Val("ptr", idx[k])]

\* The supplied arguments beyond the fixed prefix
ExpectedTail ==
    [i \in 1..(Len(call_args) - Len(call_pt.params)) |->
        call_args[Len(call_pt.params) + i]]

\* C8: for a C-variadic call the native argument list is the marshalled
\* fixed-prefix arguments followed by every supplied argument beyond the
\* fixed prefix, each once and in order; no fixed-prefix argument is appended
\* a second time, whatever the classification (Direct, Indirect, Ignore) of
\* the fixed parameters.
C8_CVarargTailOnce ==
    (/\ call_pc = "emitted"
     /\ call_pt.c_vararg
     /\ \A i \in 1..Len(call_pt.params) :
           call_pt.params[i].kind \in {"direct", "indirect", "ignore"}) =>
        /\ processed_args = ExpectedFixed \o ExpectedTail
        /\ native_call =
              (IF call_pt.ret_kind = "indirect" THEN <<Val("return_ptr", 0)>> ELSE <<>>)
              \o ExpectedFixed \o ExpectedTail

(***************************************************************************)
(* Claims about lb_build_call_expr_internal                                *)
(***************************************************************************)
\* The call lowered last is to an Odin variadic procedure and supplies no
\* variadic argument, positionally or by name.
SuppliesNoVariadic ==
    /\ var_site.done
    /\ var_site.call.callee.variadic = "odin"
    /\ var_site.call.nvar = 0
    /\ VariadicPos(var_site.call.callee) \notin var_site.call.named

\* The position of parameter i among the native arguments: ft->args has no
\* entry for a parameter that is not an Entity_Variable.
NativePos(pt, i) ==
    Cardinality({j \in 1..i : pt.params[j].kind # "nonvar"})

\* C9: a non-C-variadic call that supplies no variadic arguments passes the
\* nil slice in the variadic parameter's position, allocates neither a
\* variadic buffer nor a slice slot, and hands lb_emit_call exactly
\* param_count arguments, so that the native call has the variadic argument.
C9_NoVariadicArgsPassNilSlice ==
    SuppliesNoVariadic =>
        LET c == var_site.call.callee
            pt == VariProcType(c)
            vp == VariadicPos(c)
        IN  /\ var_site.status = "emitted"
            /\ Len(var_site.args) = ParamCount(pt)
            /\ var_site.args[vp] = Val("nil_slice", vp)
            /\ var_site.new_locals = 0
            /\ var_site.new_reuses = 0
            /\ var_site.slice_addr = Null
            /\ var_site.base = Null
            /\ Len(var_site.native) = NativeParamCount(pt)
            /\ var_site.native[NativePos(pt, vp)] = Val("direct", vp)

\* Such a call was lowered after an earlier call of the procedure had packed
\* variadic arguments, and with parameters behind the variadic one.
C9_Witness ==
    /\ SuppliesNoVariadic
    /\ var_site.status = "emitted"
    /\ var_site.call.callee.trailing = 1
    /\ Len(var_site.call.callee.fixed) = 1
    /\ var_site.call.npos = 1
    /\ var_proc.npacked > 0
    /\ var_proc.base # Null

\* Call sites of identical slice types share the slice address and the base
\* array, for the slice types in types.
SameTypeSameStorage(types) ==
    \A a \in var_proc.site_log : \A b \in var_proc.site_log :
        a.slice_type \in types /\ AreTypesIdentical(a.slice_type, b.slice_type)
            => a.slice_addr = b.slice_addr /\ a.base = b.base

\* The base array was allocated at most once, with variadic_reuse_max_bytes.
BaseAllocatedOnceWithMax ==
    /\ Len(var_proc.base_allocs) <= 1
    /\ \A i \in 1..Len(var_proc.base_allocs) : var_proc.base_allocs[i] = "max_bytes"

\* p->variadic_reuses has no two entries of identical slice types.
NoDuplicateReuse ==
    \A i \in 1..Len(var_proc.reuses) : \A j \in 1..Len(var_proc.reuses) :
        i # j => ~AreTypesIdentical(var_proc.reuses[i].slice_type,
                                    var_proc.reuses[j].slice_type)

\* C10 as stated: in every procedure, any two non-C variadic call sites that
\* pack at least one argument and have identical slice types use the same
\* slice address and the same backing buffer, the backing buffer is
\* allocated at most once with the precomputed maximum byte size, and the
\* reuse table never holds two entries of identical slice types.
C10_ReuseInEveryProcedure ==
    /\ SameTypeSameStorage(SliceElems)
    /\ BaseAllocatedOnceWithMax
    /\ NoDuplicateReuse

\* C10, amended: the sharing holds in a procedure that has a DeclInfo, for
\* the slice types its variadic_reuses lists, and there the backing buffer
\* is allocated at most once with the precomputed maximum byte size; the
\* reuse table of any procedure never holds two entries of identical slice
\* types.
C10_ReuseWithDeclInfo ==
    /\ var_decl.has_decl =>
            /\ SameTypeSameStorage(var_decl.types)
            /\ BaseAllocatedOnceWithMax
    /\ NoDuplicateReuse

\* Two call sites of one listed slice type packed their arguments, the
\* second after the table had the entry of the first.
C10_Witness ==
    /\ var_decl.has_decl
    /\ var_proc.npacked = 2
    /\ Cardinality(var_proc.site_log) = 1
    /\ \A a \in var_proc.site_log : a.slice_type \in var_decl.types
    /\ Len(var_proc.reuses) = 1
    /\ Len(var_proc.base_allocs) = 1
    /\ var_site.done /\ Packs(var_site.call)

(***************************************************************************)
(* Claims about deferred procedures                                        *)
(***************************************************************************)
\* The callee of the procedure resolves, with one constant bit-cast
\* stripped, to an entity that has a deferred procedure.
ResolvesToDeferred ==
    /\ defer_proc.callee.value.k \in {"function", "bitcast_function"}
    /\ defer_proc.callee.kind \in DeferredKinds

\* The inputs of the call
CallInputs == DeferCallArgs(defer_proc.callee)

\* The results of the call, a tuple member by member
CallOutputs ==
    LET r == defer_proc.callee.ret
    IN  IF r.result_count = 0 THEN <<>>
        ELSE IF r.result_count = 1
        THEN (IF r.ret_kind = "indirect" THEN <<Val("load_return_ptr", 0)>>
              ELSE <<Val("call", 0)>>)
        ELSE [j \in 1..r.result_count |->
                IF ~r.split THEN Val("extract", j - 1)
                ELSE IF j < r.result_count THEN Val("load_partial_ret", j - 1)
                ELSE Val("call", 0)]

\* The values the kind replays
ReplayedValues ==
    LET k == defer_proc.callee.kind
    IN  IF k \in {"in", "in_by_ptr"} THEN CallInputs
        ELSE IF k \in {"out", "out_by_ptr"} THEN CallOutputs
        ELSE CallInputs \o CallOutputs

\* C11: after a call whose callee resolves (a constant bit-cast stripped) to
\* an entity with a deferred procedure, exactly one deferred entry is
\* registered at the current scope index, with the inputs (in), the results
\* member by member (out), the inputs followed by the results (in_out), and
\* for a by-pointer kind the address of each of those values; a callee that
\* does not resolve to such an entity registers nothing.
C11_DeferredAttachment ==
    defer_site.done =>
        IF ResolvesToDeferred
        THEN /\ Len(defer_site.added) = 1
             /\ defer_site.added[1].scope = defer_site.scope
             /\ Len(defer_site.added[1].args) = Len(ReplayedValues)
             /\ \A i \in 1..Len(ReplayedValues) :
                  LET v == ReplayedValues[i]
                      a == defer_site.added[1].args[i]
                  IN  IF defer_proc.callee.kind \in {"in", "out", "in_out"}
                      THEN a = v
                      ELSE IF IsLoad(v) THEN a = LoadAddress(v)
                      ELSE a.k = "copy" /\ a.n > defer_site.locals
        ELSE defer_site.added = <<>>

\* A call through a constant bit-cast, inside a scope, of a callee with two
\* arguments and a split tuple result whose deferred procedure takes the
\* inputs and the results by pointer.
C11_Witness ==
    /\ defer_site.done
    /\ defer_proc.callee.value.k = "bitcast_function"
    /\ defer_proc.callee.kind = "in_out_by_ptr"
    /\ defer_proc.callee.nargs = 2
    /\ defer_proc.callee.ret.split
    /\ defer_site.scope = 1
    /\ Len(defer_site.added) = 1
    /\ Len(defer_site.added[1].args) = 4

\* A call whose callee resolves to an entity with an in-by-pointer deferred
\* procedure has registered its entry.
InByPtrRegistered ==
    /\ defer_site.done
    /\ ResolvesToDeferred
    /\ defer_proc.callee.kind = "in_by_ptr"
    /\ Len(defer_site.added) = 1

EmittedAt(id) == {i \in 1..Len(block) : block[i] = Instr("deferred", id)}

\* The position of the call that registered deferred entry id
RegisteredAt(id) == {i \in 1..Len(block) : block[i] = Instr("call", id)}

LaneValue(x, w, is_signed) == IF is_signed /\ x >= 2^(w - 1) THEN x - 2^w ELSE x

\* The lane of width w that holds the integer v
LaneOf(v, w) == v % 2^w

\* x shifted by s < w: left, or right (arithmetic for a signed element,
\* logical for an unsigned one)
ShiftedValue(id, is_signed, x, s, w) ==
    IF id \in {"simd_shl", "simd_shl_masked"}
    THEN LaneOf(x * 2^s, w)
    ELSE LaneOf(LaneValue(x, w, is_signed) \div 2^s, w)

ShiftDone == simd_call.id \in SimdShiftIds /\ simd_res # <<>>

\* C14: per lane and for every shift amount, a masked shift shifts by the
\* amount modulo the element's bit width w; an unmasked shift yields the
\* shifted value when the amount is below w and zero when it is w or more;
\* right shifts are arithmetic for signed and logical for unsigned elements.
C14_SimdShifts ==
    ShiftDone =>
        \A i \in 1..Len(simd_res) :
            LET w == simd_call.sz * 8
                x == simd_call.arg0[i]
                s == simd_call.arg1[i]
            IN  IF simd_call.id \in {"simd_shl_masked", "simd_shr_masked"}
                THEN simd_res[i] = ShiftedValue(simd_call.id, simd_call.is_signed, x, s % w, w)
                ELSE IF s < w
                THEN simd_res[i] = ShiftedValue(simd_call.id, simd_call.is_signed, x, s, w)
                ELSE simd_res[i] = 0

\* A signed simd_shr_masked of a negative 16-bit lane by 17: the lane is
\* shifted by one bit and keeps its sign.
C14_Witness ==
    /\ ShiftDone
    /\ simd_call.id = "simd_shr_masked"
    /\ simd_call.is_signed
    /\ simd_call.sz = 2
    /\ simd_call.arg0[1] = 2^15 + 2
    /\ simd_call.arg1[1] = 17
    /\ simd_res[1] = 2^15 + 2^14 + 1

SwizzleDone == simd_call.id = "simd_runtime_swizzle" /\ simd_res # <<>>

\* C15: the portable emulation of the runtime swizzle sets lane i of the
\* result to the lane of the source that index[i] modulo the lane count
\* selects, for every index value, element size and lane count.
C15_EmulationModuloLaneCount ==
    (SwizzleDone /\ ~UseHardwareSwizzle(simd_call)) =>
        \A i \in 1..simd_call.count :
            simd_res[i] = simd_call.src[(simd_call.indices[i] % simd_call.count) + 1]

\* C16: on an input for which the hardware instruction is used, the result
\* is, lane for lane, the one the emulation gives for the same source and
\* index vectors, indices outside the lane range included.
C16_EmulationAgreesWithHardware ==
    (SwizzleDone /\ UseHardwareSwizzle(simd_call)) =>
        simd_res = EmulatedSwizzle(simd_call)

\* The (architecture, lane count) pairs with a table-lookup instruction
HardwarePairs ==
    ({"amd64", "i386"} \X {16, 32, 64})
    \cup ({"arm64"} \X {16, 32, 48, 64})
    \cup ({"arm32"} \X {8, 16, 24, 32})
    \cup ({"wasm32", "wasm64p32"} \X {16})

\* The target features the instruction behind an intrinsic needs
RequiredFeatures(name) ==
    CASE name = "llvm.x86.ssse3.pshuf.b.128" -> {"ssse3"}
      [] name = "llvm.x86.avx2.pshuf.b" -> {"avx2"}
      [] name = "llvm.x86.avx512.pshuf.b.512" -> {"avx512bw"}
      [] name = "llvm.wasm.swizzle" -> {"simd128"}
      [] OTHER -> {"neon"}

\* C23: simd_runtime_swizzle emits a hardware table-lookup intrinsic only
\* when the element size is 1 byte, the (architecture, lane count) pair is
\* one of x86 16/32/64, ARM64 16/32/48/64, ARM32 8/16/24/32 or WebAssembly
\* 16, and the target features that intrinsic requires have been verified
\* enabled; in every other case it emits the portable emulation.
C23_HardwareOnlyWhenSupported ==
    SwizzleDone =>
        IF simd_emitted # "emulation"
        THEN /\ simd_call.elem_size = 1
             /\ <<simd_call.arch, simd_call.count>> \in HardwarePairs
             /\ RequiredFeatures(simd_emitted) \subseteq simd_call.features
        ELSE \/ simd_call.elem_size # 1
             \/ <<simd_call.arch, simd_call.count>> \notin HardwarePairs
             \/ ~(RequiredFeatures(IntrinsicName(simd_call.arch, simd_call.elem_size,
                                                 simd_call.count))
                    \subseteq simd_call.features)

(***************************************************************************)
(* Claims about lb_build_builtin_proc                                      *)
(***************************************************************************)
\* C17: a builtin call returns normally only when it was lowered: a call
\* for which no instruction was built and no value produced aborts; none
\* returns normally with an empty or null value.
C17_UnhandledAborts ==
    builtin_res.pc = "returned" =>
        (builtin_res.emitted \/ builtin_res.value # "null")

(***************************************************************************)
(* Claims about nested procedures                                          *)
(***************************************************************************)
\* The last call was made on an unspecialized polymorphic procedure and got
\* as far as lb_create_procedure
PolyCallDone ==
    /\ nest_site.op \in {"create", "nested"}
    /\ nest_site.built
    /\ nest_site.kind = "poly"

\* C18: lb_create_procedure on an unspecialized polymorphic procedure
\* returns null and leaves the module as it was: no function added, nothing
\* added to the member, procedure or entity tables; lb_build_nested_proc on
\* such an entity adds nothing to the parent's children or to the
\* generation queue.
C18_PolymorphicSkipped ==
    PolyCallDone =>
        /\ nest_site.ret = NullProc
        /\ nest_mod.functions = nest_site.mod.functions
        /\ nest_mod.procs = nest_site.mod.procs
        /\ nest_mod.members = nest_site.mod.members
        /\ nest_mod.procedures = nest_site.mod.procedures
        /\ nest_mod.entity_values = nest_site.mod.entity_values
        /\ ~nest_mod.fatal
        /\ nest_parent.children = nest_site.children
        /\ nest_mod.procedures_to_generate = nest_site.mod.procedures_to_generate

\* lb_build_nested_proc on a polymorphic entity, after another nested
\* procedure was built: the module and the parent hold that one only.
C18_Witness ==
    /\ PolyCallDone
    /\ nest_site.op = "nested"
    /\ nest_site.calls = 2
    /\ Len(nest_parent.children) = 1
    /\ Len(nest_mod.procedures_to_generate) = 1
    /\ Len(nest_mod.functions) = 1

\* lb_build_nested_proc returned for an entity that is built
NestedBuilt ==
    /\ nest_site.op = "nested"
    /\ nest_site.built
    /\ nest_site.ret # NullProc

\* C19 as stated: when lb_build_nested_proc returns for an entity that is
\* built, the nested procedure's native value exists and its body
\* generation is not left pending in a queue.
C19_NotLeftPending ==
    NestedBuilt =>
        /\ nest_mod.procs[nest_site.ret].value \in 1..Len(nest_mod.functions)
        /\ \A i \in 1..Len(nest_mod.procedures_to_generate) :
              nest_mod.procedures_to_generate[i] # nest_site.ret

\* C19, amended: when lb_build_nested_proc returns for an entity that is
\* built, the nested procedure's native value exists and is the value of
\* the entity, and the procedure is the last child of the parent and the
\* last entry of the generation queue, where its body waits to be generated.
C19_DeclaredAndQueued ==
    NestedBuilt =>
        /\ nest_mod.procs[nest_site.ret].value \in 1..Len(nest_mod.functions)
        /\ nest_site.entity \in DOMAIN nest_mod.entity_values
        /\ nest_mod.entity_values[nest_site.entity] = nest_mod.procs[nest_site.ret].value
        /\ Len(nest_parent.children) = Len(nest_site.children) + 1
        /\ nest_parent.children[Len(nest_parent.children)] = nest_site.ret
        /\ Len(nest_mod.procedures_to_generate)
             = Len(nest_site.mod.procedures_to_generate) + 1
        /\ nest_mod.procedures_to_generate[Len(nest_mod.procedures_to_generate)]
             = nest_site.ret

\* The second nested procedure of the parent was built
C19_Witness ==
    /\ NestedBuilt
    /\ nest_site.ret = 2
    /\ nest_parent.children = <<1, 2>>
    /\ nest_mod.procedures_to_generate = <<1, 2>>

(***************************************************************************)
(* Claims about lb_emit_call_internal                                      *)
(***************************************************************************)
\* C20: for a callee whose native signature is not variadic,
\* lb_emit_call_internal aborts whenever the number of native arguments it
\* assembled differs from the parameter count of that signature, and never
\* emits a call with more or fewer arguments than the signature declares.
C20_CountMismatchAborts ==
    (internal_res.pc \in {"emitted", "fatal"} /\ ~internal_call.is_var_arg) =>
        /\ ArgCount(internal_call) # internal_call.param_count
              => internal_res.pc = "fatal"
        /\ internal_res.pc = "emitted"
              => internal_res.emitted_args = internal_call.param_count
\* The positions of call_block holding instruction op on value v
InstrsAt(op, v) == {i \in 1..Len(call_block) : call_block[i].op = op /\ call_block[i].v = v}

\* C22: in every native call emitted, the return pointer, when the return
\* is Indirect, is native argument 0; the marshalled fixed arguments follow
\* in source parameter order, then the hidden split-return pointers in tuple
\* order, and the context pointer, when the convention is Odin, is the last
\* argument; the return slot is allocated before the call and loaded only
\* after it.
C22_NativeArgumentOrder ==
    call_pc = "emitted" =>
        LET indirect == call_pt.ret_kind = "indirect"
            off == IF indirect THEN 1 ELSE 0
            nsplit == SplitPtrCount(call_pt)
            ctx == IF HasContext(call_pt.cc) THEN 1 ELSE 0
            n == Len(native_call)
            slot == Val("return_ptr", 0)
        IN  /\ n >= off + Len(ExpectedFixed) + nsplit + ctx
            /\ indirect => native_call[1] = slot
            /\ ~indirect => \A i \in 1..n : native_call[i] # slot
            /\ \A k \in 1..Len(ExpectedFixed) : native_call[off + k] = ExpectedFixed[k]
            /\ \A j \in 0..(nsplit - 1) :
                  native_call[n - ctx - nsplit + 1 + j] = Val("partial_ret", j)
            /\ ~call_pt.c_vararg => n = off + Len(ExpectedFixed) + nsplit + ctx
            /\ HasContext(call_pt.cc) => native_call[n] = Val("context", 0)
            /\ ~HasContext(call_pt.cc) => \A i \in 1..n : native_call[i] # Val("context", 0)
            /\ Cardinality(InstrsAt("call", Val("call", 0))) = 1
            /\ \A c \in InstrsAt("call", Val("call", 0)) :
                  /\ call_block[c].args = native_call
                  /\ indirect =>
                        /\ Cardinality(InstrsAt("alloca", slot)) = 1
                        /\ \A a \in InstrsAt("alloca", slot) : a < c
                        /\ InstrsAt("load", slot) # {}
                        /\ \A l \in InstrsAt("load", slot) : l > c
                        /\ call_result = Load(slot)

\* An Odin call returning a split tuple of three by pointer, with a Direct
\* and an Indirect parameter.
C22_Witness ==
    /\ call_pc = "emitted"
    /\ call_pt.cc = "odin" /\ call_pt.split /\ call_pt.result_count = 3
    /\ call_pt.ret_kind = "indirect"
    /\ call_pt.params = <<Param("direct", TRUE, 8), Param("indirect", TRUE, 24)>>
    /\ native_call = <<Val("return_ptr", 0), Val("direct", 1), Val("ptr", 2),
                       Val("partial_ret", 0), Val("partial_ret", 1),
                       Val("context", 0)>>

(***************************************************************************)
(* Claims about the tuple-fix map                                          *)
(***************************************************************************)
\* The step is a call with split returns
SplitCallStep == fix_site'.op = "split" /\ fix_count'.calls = fix_count.calls + 1

\* C21: after every split-return call, the procedure's tuple-fix map holds
\* the same list of n component values under both the dummy result pointer
\* and the aggregate value loaded from it, and the entries recorded by
\* earlier split-return calls in the same procedure are still present and
\* unchanged.
C21_TupleFixUnderBothKeys ==
    [][SplitCallStep =>
        /\ fix_site'.result_ptr \in DOMAIN tuple_fix_map'
        /\ fix_site'.result \in DOMAIN tuple_fix_map'
        /\ fix_site'.result = Load(fix_site'.result_ptr)
        /\ tuple_fix_map'[fix_site'.result_ptr] = tuple_fix_map'[fix_site'.result]
        /\ Len(tuple_fix_map'[fix_site'.result_ptr]) = fix_site'.ret_count
        /\ \A j \in 1..(fix_site'.ret_count - 1) :
              tuple_fix_map'[fix_site'.result_ptr][j] = Load(fix_site'.ptrs[j])
        /\ tuple_fix_map'[fix_site'.result_ptr][fix_site'.ret_count]
              = fix_site'.call_value
        /\ \A k \in DOMAIN tuple_fix_map :
              k \in DOMAIN tuple_fix_map' /\ tuple_fix_map'[k] = tuple_fix_map[k]]_vars

\* A third split-return call, a tuple of three after earlier ones, left six
\* keys in the map.
C21_Witness ==
    /\ fix_site.op = "split"
    /\ fix_site.ret_count = 3
    /\ fix_count.calls = 3
    /\ Cardinality(DOMAIN tuple_fix_map) = 6
    /\ tuple_fix_map[fix_site.result] = tuple_fix_map[fix_site.result_ptr]

(***************************************************************************)
(* Claims about the SIMD reductions                                        *)
(***************************************************************************)
\* One loop iteration of a reduction in the id set happened in the step
ReducedBy(ids) ==
    /\ reduce_call.id \in ids
    /\ reduce_loop'.num_remaining # reduce_loop.num_remaining

\* The step halved the remaining width
Halved ==
    /\ 2 * reduce_loop'.num_remaining = reduce_loop.num_remaining
    /\ Len(reduce_loop'.remaining) = reduce_loop'.num_remaining

\* The result of a finished bisect or pairs reduction holds every input lane
\* exactly once
EveryLaneOnce ==
    (reduce_res.pc = "returned" /\ reduce_call.id \in ReduceBisectIds \cup ReducePairsIds)
        => /\ reduce_loop.num_remaining = 1
           /\ reduce_res.value = SetToBag(0..(reduce_call.num_elems - 1))

\* C24: for a vector with a power-of-two lane count n, the bisect reduction
\* combines at each step lane i of the remaining vector with lane i + r (r
\* being half the remaining width), and the pairs reduction combines lane 2i
\* with lane 2i+1; both halve the remaining width each step and stop at one
\* lane, so every input lane contributes exactly once to the result.
C24_ReductionsCombineEveryLaneOnce ==
    /\ []EveryLaneOnce
    /\ [][ReducedBy(ReduceBisectIds) =>
            /\ Halved
            /\ \A i \in 0..(reduce_loop'.num_remaining - 1) :
                  reduce_loop'.remaining[i + 1] =
                      reduce_loop.remaining[i + 1]
                      (+) reduce_loop.remaining[i + reduce_loop'.num_remaining + 1]]_vars
    /\ [][ReducedBy(ReducePairsIds) =>
            /\ Halved
            /\ \A i \in 0..(reduce_loop'.num_remaining - 1) :
                  reduce_loop'.remaining[i + 1] =
                      reduce_loop.remaining[2 * i + 1]
                      (+) reduce_loop.remaining[2 * i + 2]]_vars

(***************************************************************************)
(* Claims about the lane rotations                                         *)
(***************************************************************************)
\* The step is a rotation by builtin id
RotatedBy(id) ==
    /\ Len(rotate_done') = Len(rotate_done) + 1
    /\ rotate_done'[Len(rotate_done')] = id

\* C29: for a power-of-two lane count n and every constant integer k
\* (negative values and |k| >= n included), simd_lanes_rotate_left by k sets
\* result lane i to source lane (i + k) mod n and simd_lanes_rotate_right by
\* k sets it to source lane (i - k) mod n, so rotating left by k and then
\* right by k restores the original lane order.
C29_RotationsAreModular ==
    /\ [][RotatedBy("simd_lanes_rotate_left") =>
            \A i \in 0..(rotate_call.count - 1) :
                rotate_vec'[i + 1] =
                    rotate_vec[((i + rotate_call.k) % rotate_call.count) + 1]]_vars
    /\ [][RotatedBy("simd_lanes_rotate_right") =>
            \A i \in 0..(rotate_call.count - 1) :
                rotate_vec'[i + 1] =
                    rotate_vec[((i - rotate_call.k) % rotate_call.count) + 1]]_vars
    /\ [](rotate_done = <<"simd_lanes_rotate_left", "simd_lanes_rotate_right">>
            => rotate_vec = [j \in 1..rotate_call.count |-> j - 1])

\* Eight lanes rotated left by -11 and then right by -11 are back in order.
C29_Witness ==
    /\ rotate_call.count = 8 /\ rotate_call.k = -11
    /\ rotate_call.convention = "truncated"
    /\ rotate_done = <<"simd_lanes_rotate_left", "simd_lanes_rotate_right">>
    /\ rotate_vec = <<0, 1, 2, 3, 4, 5, 6, 7>>

(***************************************************************************)
(* Claims about the variadic buffer at the native call                     *)
(***************************************************************************)
\* C25: at the moment the native call of a non-C variadic call site is
\* issued, the first slice_len elements of the shared variadic buffer that
\* its slice points to equal that call's own variadic arguments in order,
\* for every call expression, including one whose named or defaulted
\* arguments (evaluated after the buffer was filled) themselves contain a
\* variadic call in the same procedure.
C25_BufferHoldsOwnArguments ==
    \A i \in 1..Len(buf_issued) : buf_issued[i].seen = buf_issued[i].args

(***************************************************************************)
(* Claims about lb_end_procedure_body                                      *)
(***************************************************************************)
\* The number of terminators in block b
Terminators(b) ==
    Cardinality({i \in 1..Len(b) : b[i].op \in {"ret", "br", "unreachable"}})

\* C27: after lb_end_procedure_body, every basic block of the function ends
\* in exactly one terminator: the declarations block ends with a branch to
\* the entry block, a result-less procedure whose current block was
\* unterminated ends with return-void, and every other block that was
\* unterminated ends with unreachable; blocks that already ended in a
\* terminator get no further instruction.
C27_EveryBlockTerminatedOnce ==
    [][end_pc' = "ended" =>
        /\ Len(end_blocks') = Len(end_blocks)
        /\ \A i \in 1..Len(end_blocks) :
              LET before == end_blocks[i]
                  after == end_blocks'[i]
              IN  /\ BlockTerminated(after)
                  /\ Terminators(after) = 1
                  /\ SubSeq(after, 1, Len(before)) = before
                  /\ IF i = DeclBlock
                     THEN after = Append(before, Instr("br", EntryBlock))
                     ELSE IF BlockTerminated(before) THEN after = before
                     ELSE IF i = end_proc.curr_block /\ end_proc.result_count = 0
                     THEN after[Len(after)] = Instr("ret", 0)
                     ELSE after = Append(before, Instr("unreachable", 0))]_vars

\* A result-less procedure ended with its current block open and another
\* block empty: one got the return, the other the unreachable.
C27_Witness ==
    /\ end_pc = "ended"
    /\ end_proc.result_count = 0 /\ end_proc.curr_block = 3
    /\ Len(end_blocks) = 3
    /\ end_blocks[1] = <<Instr("alloca", 0), Instr("br", EntryBlock)>>
    /\ end_blocks[2] = <<Instr("unreachable", 0)>>
    /\ end_blocks[3] = <<Instr("call", 0), Instr("ret", 0)>>

(***************************************************************************)
(* Claims about the syscall builtins                                       *)
(***************************************************************************)
\* The registers of the input items of a constraint sequence, in order
InputRegisters(constraints) ==
    LET ins == SelectSeq(constraints, LAMBDA c : c.kind = "in")
    IN  [i \in 1..Len(ins) |-> ins[i].reg]

\* The register the kernel reads the syscall number from
SyscallNumberRegister(builtin, arch, os) ==
    CASE arch = "riscv64" -> "a7"
      [] arch = "amd64"   -> "rax"
      [] arch = "i386"    -> "eax"
      [] arch = "arm32"   -> "r7"
      [] arch = "arm64" /\ builtin = "syscall" ->
             IF os = "darwin" THEN "x16" ELSE "x8"
      [] arch = "arm64" /\ builtin = "syscall_bsd" ->
             IF os = "netbsd" THEN "x17" ELSE "x8"

\* C28: for every supported architecture and operating system and every
\* argument count from 0 to 7, the constraint string built by syscall and
\* syscall_bsd names exactly one input register per argument passed to the
\* inline-assembly call, all distinct, the first being the syscall-number
\* register; an argument count above 7 aborts fatally.
C28_OneInputRegisterPerArgument ==
    /\ sys_pc = "built" =>
          LET regs == InputRegisters(sys_asm.constraints)
          IN  /\ sys_asm.args = sys_call.arg_count
              /\ Len(regs) = sys_asm.args
              /\ \A i, j \in 1..Len(regs) : i # j => regs[i] # regs[j]
              /\ Len(regs) > 0 =>
                    regs[1] = SyscallNumberRegister(sys_call.builtin, sys_call.arch,
                                                    sys_call.os)
    /\ (sys_pc \in {"built", "fatal"} /\ sys_call.arg_count > 7) => sys_pc = "fatal"

(***************************************************************************)
(* Claims about constant_utf16_cstring                                     *)
(***************************************************************************)
\* The UTF-16 units of the code point r
Utf16Units(r) ==
    IF r < 55296 \/ (57344 <= r /\ r < 65536) THEN <<r>>
    ELSE IF 65536 <= r /\ r <= 1114111
    THEN <<55296 + (((r - 65536) \div 1024) % 1024), 56320 + ((r - 65536) % 1024)>>
    ELSE <<65533>>

RECURSIVE Utf16UnitsOf(_)
Utf16UnitsOf(text) ==
    IF text = <<>> THEN <<>> ELSE Utf16Units(Head(text).r) \o Utf16UnitsOf(Tail(text))

\* C30: constant_utf16_cstring emits for each decoded code point r the single
\* unit r when r < 0xD800 or 0xE000 <= r < 0x10000, the surrogate pair
\* (0xD800 + (((r - 0x10000) >> 10) & 0x3FF), 0xDC00 + ((r - 0x10000) & 0x3FF))
\* when 0x10000 <= r <= 0x10FFFF, and the single unit 0xFFFD otherwise; it
\* then appends exactly one zero unit, and the number of units written never
\* exceeds twice the input byte length plus one.
C30_Utf16UnitsPerCodePoint ==
    utf_pc = "built" =>
        /\ utf_array = Append(Utf16UnitsOf(utf_value), 0)
        /\ \A i \in 1..Len(utf_array) : utf_array[i] \in 0..65535
        /\ Len(utf_array) <= utf_max_len
        /\ utf_max_len = 2 * ByteLen(utf_value) + 1

\* U+10400 and a lone surrogate: D801 DC00, FFFD, 0
C30_Witness ==
    /\ utf_pc = "built"
    /\ utf_value = <<[r |-> 66560, w |-> 4], [r |-> 55296, w |-> 3]>>
    /\ utf_array = <<55297, 56320, 65533, 0>>

====
